---- MODULE Spec2Model ----
(***************************************************************************)
(* Unreal Engine 5.3 garbage collector (GarbageCollection.cpp): the mark   *)
(* phase, the parallel reachability analysis, the gathering of             *)
(* unreachable objects, the clearing of weak references and the            *)
(* incremental purge (unhash, FinishDestroy, destruction on the game       *)
(* thread and on the async purge thread).                                  *)
(***************************************************************************)
EXTENDS Integers, Sequences, FiniteSets, TLC

\* ------------------------------------------------------------------ bounds
\* Number of slots of GUObjectArray that hold an object.
NumObjects == 4
\* Most objects a purge starts with.
MaxUnreachable == 3
\* Most collection cycles of a behaviour.
MaxCycles == 2
\* Most clusters in the heap (a cluster is a root and one member).
MaxClusters == 1
\* Most reference slots besides the slot a cluster root has on its member.
MaxRefs == 2
\* Most objects of the initial reachable set.
MaxRoots == 1
\* Most task graph worker threads (FTaskGraphInterface::GetNumWorkerThreads).
MaxThreads == 2
\* Objects in a work block of FWorkBlockifier.
BlockCapacity == 1
\* Largest gc.NumRetriesBeforeForcingGC the console sets.
MaxRetries == 3
\* Most skipped attempts GNumAttemptsSinceLastGC counts.
MaxAttempts == 5
\* Most threads besides the collector that hold the GC lock at once.
MaxAsyncThreads == 1
\* Most scratch pages FMemory::Malloc hands out.
MaxPages == 34
\* FBoundedWorkstealingQueue::Capacity is two to the power of CapacityBits.
CapacityBits == 1
\* Most distinct addresses of work blocks.
MaxBlocks == 2
\* Most calls of FWorkstealingQueue::Push.
MaxPushes == 4
\* Most threads that steal from one queue.
MaxThieves == 2
\* FAROBlock::NumWords is two to the power of AROWordBits.
AROWordBits == 2
\* FAROQueueStore::MaxBlocks
MaxAROBlocks == 3
\* Workers that own an FAROQueue.
NumAROWorkers == 2
\* Largest FAROQueue::NumPop.
MaxNumPop == 2
\* Most calls of FAROQueue::TryPush.
\* The slow ARO callbacks registered, the workers that steal their calls, and the
\* calls that wait in one queue.
MaxSlowAROs == 2
MaxSlowWorkers == 2
MaxSlowCalls == 2
\* FAROQueue::NumPop<FFew>, scaled down as MaxNumPop scales NumPop<FMany>.
FewNumPop == 1

MaxContexts == 4
MaxAROPushes == 6
\* The most slots of a heap of SpecTailspin.
MaxTailspinRefs == 3
\* The most threads of a mark whose stripes are compared (more than NumObjects).
MaxStripes == 6
\* UE::GC::MaxWorkers
MaxWorkers == 16
\* gc.IncrementalBeginDestroyEnabled
GIncrementalBeginDestroyEnabled == 1

\* ------------------------------------------------------- program constants
TimeLimitEnforcementGranularityForDestroy == 10
TimeLimitEnforcementGranularityForDeletion == 100
TimeLimitEnforcementGranularityForBeginDestroy == 10

Obj == 1..NumObjects

VARIABLES
    \* GUObjectArray: one FUObjectItem per index
    Object,             \* [Obj -> BOOLEAN]: ObjectItem->Object != nullptr
    InternalFlags,      \* [Obj -> SUBSET EInternalObjectFlags]
    ObjectFlags,        \* [Obj -> SUBSET EObjectFlags]
    OwnerIndex,         \* [Obj -> Int]: FUObjectItem::ClusterRootIndex
    Clusters,           \* [Obj -> FUObjectCluster], indexed by the root's object index
    Refs,               \* the reference slots of the heap
    \* what the objects answer
    IsDestructionThreadSafe,
    IsReadyForFinishDestroy,
    \* globals of the purge
    GUnreachableObjects,
    GUnrechableObjectIndex,
    GObjPurgeIsRequired,
    GObjIncrementalPurgeIsInProgress,
    GObjFinishDestroyHasBeenRoutedToAllObjects,
    GObjCurrentPurgeObjectIndex,
    GObjCurrentPurgeObjectIndexNeedsReset,
    GGCObjectsPendingDestruction,
    GGCObjectsPendingDestructionCount,
    GAsyncPurge,        \* the fields of FAsyncPurge
    InternalArrayLock,  \* GUObjectArray.LockInternalArray: "None", "Game", "Purge"
    \* the threads
    Frame,              \* game thread: position and locals of the running call
    PurgeThread,        \* FAsyncPurge::Run: position and locals
    \* history
    Destructed,         \* [Obj -> Nat]: calls of ~UObject
    DestructedBy,       \* [Obj -> SUBSET {"Game", "Purge"}]
    \* the collection cycle
    GCLock,             \* the GC lock is held by the collector
    NumWorkerThreads,   \* FTaskGraphInterface::GetNumWorkerThreads()
    InitialObjects,     \* FRealtimeGC::InitialObjects
    Workers,            \* the reachability workers and their contexts
    Coordinator,        \* FWorkCoordinator
    hist,               \* what the cycle and the purge have done so far
    \* TryCollectGarbage
    GIsInitialLoad,
    GNumAttemptsSinceLastGC,
    GNumRetriesBeforeForcingGC,
    AsyncCounter,       \* FGCCSyncObject: threads other than the collector holding the lock
    tryHist,            \* what the calls of TryCollectGarbage have done so far
    \* FPageAllocator
    GScratchPages,      \* the worker caches and the shared cache, as numbers of pages
    pageHist,           \* pages handed out and pages freed so far
    \* FWorkstealingQueue
    SharedBlocks,       \* FBoundedWorkstealingQueue: Slots, Head, Tail
    LocalBlocks,        \* the owner's overflow array
    Owner,              \* the owner of the queue inside Pop: position and locals
    Thieves,            \* the threads inside Steal: position and locals
    queueHist,          \* blocks pushed and blocks returned so far
    \* FAROQueue
    GAROBlocks,         \* FAROQueueStore: NumBlocks, bFull, Blocks
    AROQueues,          \* one FAROQueue per worker: Head, HeadBlock, Tail
    AROThreads,         \* the workers inside PopImpl: position and locals
    aroHist,            \* objects pushed, rejected and returned so far
    \* FContextPool and FWorkerIndexAllocator
    GWorkerIndices,     \* FWorkerIndexAllocator::Used, as the set of its bits
    ContextPool,        \* FContextPool: Reusable, NumAllocated
    WorkerIndex,        \* the worker index of each FWorkerContext that exists
    Reachability,       \* PerformReachabilityAnalysis and ProcessAsync: position, contexts
    \* FSlowAROManager
    GSlowARO,           \* TSingleton<FSlowAROManager>: bValid and the fields of the manager
    Stealing            \* the workers in StealWork: the build, the position, the loot

heapVars == <<Object, InternalFlags, ObjectFlags, OwnerIndex, Clusters, Refs>>
answerVars == <<IsDestructionThreadSafe, IsReadyForFinishDestroy>>
unhashVars == <<GUnreachableObjects, GUnrechableObjectIndex>>
purgeVars == <<GObjPurgeIsRequired, GObjIncrementalPurgeIsInProgress,
               GObjFinishDestroyHasBeenRoutedToAllObjects, GObjCurrentPurgeObjectIndex,
               GObjCurrentPurgeObjectIndexNeedsReset, GGCObjectsPendingDestruction,
               GGCObjectsPendingDestructionCount>>
asyncVars == <<GAsyncPurge, InternalArrayLock, PurgeThread>>
dtorVars == <<Destructed, DestructedBy>>
gcVars == <<GCLock, NumWorkerThreads, InitialObjects, Workers, Coordinator>>
tryVars == <<GIsInitialLoad, GNumAttemptsSinceLastGC, GNumRetriesBeforeForcingGC, AsyncCounter,
             tryHist>>
pageVars == <<GScratchPages, pageHist>>
queueVars == <<SharedBlocks, LocalBlocks, Owner, Thieves, queueHist>>
aroVars == <<GAROBlocks, AROQueues, AROThreads, aroHist>>
contextVars == <<GWorkerIndices, ContextPool, WorkerIndex, Reachability>>
slowAROVars == <<GSlowARO, Stealing>>
extVars == <<tryVars, pageVars, queueVars, aroVars, contextVars, slowAROVars>>
vars == <<heapVars, answerVars, unhashVars, purgeVars, asyncVars, dtorVars, gcVars, Frame,
          hist, extVars>>

\* ----------------------------------------------------------------- helpers
Min(a, b) == IF a < b THEN a ELSE b

Cap(n) == Min(n, 2)

Range(s) == {s[i] : i \in 1..Len(s)}

\* The locals of the game thread between two calls.
IdleFrame ==
    [pc |-> "Idle", ret |-> "Idle", unhashRet |-> "None", bUseTimeLimit |-> FALSE,
     bTimeExpired |-> FALSE, bTimeLimitReached |-> FALSE, bCompleted |-> FALSE,
     TimePollCounter |-> 0, CurPendingObjIndex |-> 0, ProcessedObjectsCount |-> 0,
     LocalNumObjectsToDestroyOnGameThread |-> 0, bFinishedDestroyingObjects |-> TRUE,
     bPerformFullPurge |-> FALSE]

\* The frame of the caller of a call that returns: CollectGarbage keeps its argument.
CallerFrame == [IdleFrame EXCEPT !.bPerformFullPurge = Frame.bPerformFullPurge]

\* FPlatformTime::Seconds() - StartTime > TimeLimit: the clock is not modelled; a
\* poll of a time-limited call may find the budget spent, and once spent it stays spent.
TimeLimitOutcomes(f) ==
    IF ~f.bUseTimeLimit THEN {FALSE}
    ELSE IF f.bTimeExpired THEN {TRUE}
    ELSE {FALSE, TRUE}

\* TimePollCounter++: the counter is only read modulo the granularity (10), which
\* is what is kept of it.
NextPoll(counter) == (counter + 1) % TimeLimitEnforcementGranularityForDestroy

\* The objects GatherUnreachableObjects put in GUnreachableObjects this cycle, as a
\* set (the history of the array, whose slots the purge sets to null).
Gathered == hist.Gathered

\* UObject::ConditionalBeginDestroy
ConditionalBeginDestroy(o) ==
    /\ ObjectFlags' = [ObjectFlags EXCEPT ![o] = @ \cup {"RF_BeginDestroyed"}]
    /\ hist' = [hist EXCEPT !.BeginDestroy[o] =
                    IF "RF_BeginDestroyed" \in ObjectFlags[o] THEN @ ELSE Cap(@ + 1),
                             !.Unhashed = Append(@, o)]

\* UObject::ConditionalFinishDestroy
ConditionalFinishDestroy(o) ==
    /\ ObjectFlags' = [ObjectFlags EXCEPT ![o] = @ \cup {"RF_FinishDestroyed"}]
    /\ hist' = [hist EXCEPT !.FinishDestroy[o] =
                    IF "RF_FinishDestroyed" \in ObjectFlags[o] THEN @ ELSE Cap(@ + 1),
                             !.Routed[o] = Cap(@ + 1)]

\* Object->~UObject() and GUObjectAllocator.FreeUObject(Object), by thread t
DestroyObject(o, t) ==
    /\ Destructed' = [Destructed EXCEPT ![o] = Cap(@ + 1)]
    /\ DestructedBy' = [DestructedBy EXCEPT ![o] = @ \cup {t}]
    /\ Object' = [Object EXCEPT ![o] = FALSE]
    /\ InternalFlags' = [InternalFlags EXCEPT ![o] = {}]

IsFinishedWithoutEvent(ap) ==
    ap.NumObjectsToDestroyOnGameThread = ap.NumObjectsDestroyedOnGameThread

\* FAsyncPurge::IsFinished
IsFinished(ap) ==
    IF ap.Thread
    THEN ap.FinishedPurgeEvent
         /\ ap.NumObjectsToDestroyOnGameThread = ap.NumObjectsDestroyedOnGameThread
    ELSE ap.ObjCurrentPurgeObjectIndex >= ap.LastUnreachableObjectsCount
         /\ ap.NumObjectsToDestroyOnGameThread = ap.NumObjectsDestroyedOnGameThread

\* IsIncrementalPurgePending
IsIncrementalPurgePending == GObjIncrementalPurgeIsInProgress \/ GObjPurgeIsRequired

\* IsIncrementalUnhashPending
IsIncrementalUnhashPending == GUnrechableObjectIndex < Len(GUnreachableObjects)

\* FAsyncPurge::FAsyncPurge
NewAsyncPurge(bMultithreaded) ==
    [Thread |-> bMultithreaded, BeginPurgeEvent |-> FALSE, FinishedPurgeEvent |-> TRUE,
     ObjCurrentPurgeObjectIndex |-> 0, NumObjectsToDestroyOnGameThread |-> 0,
     NumObjectsDestroyedOnGameThread |-> 0, ObjCurrentPurgeObjectIndexOnGameThread |-> 0,
     LastUnreachableObjectsCount |-> 0]

EmptyCluster == [Objects |-> {}, ReferencedClusters |-> {}, MutableObjects |-> {},
                 bNeedsDissolving |-> FALSE]

\* The contexts of a reachability analysis: the collection cycles start at most
\* MaxThreads workers, the tail of a reachability analysis one more.
WorkerIds == 0..MaxThreads

\* The worker caches of the page allocator.
PageWorkerIds == 0..(MaxThreads - 1)

\* A worker of the reachability analysis and its FWorkerContext: the initial objects
\* of the context, the block the worker is visiting (Current), the slots of the
\* object it is visiting that it has yet to visit (Slots), the block it is filling
\* (Wip), its queue of full blocks, the weak slots it has recorded, and the block it
\* took from a queue while spinning (Loot).
IdleWorker == [pc |-> "None", Initial |-> <<>>, Current |-> <<>>, Slots |-> <<>>,
               Wip |-> <<>>, Queue |-> <<>>, Weak |-> {}, Loot |-> <<>>]

NoCoordinator == [Contexts |-> {}, Num |-> 0, NumUsedContexts |-> 0, NumWorkless |-> 0,
                  NumStopDirectly |-> 0, NumStopped |-> 0]

NoHeap == [Object |-> [o \in Obj |-> FALSE], Flags |-> [o \in Obj |-> {}],
           Owner |-> [o \in Obj |-> 0], Refs |-> <<>>, Kept |-> {},
           Clusters |-> [o \in Obj |-> EmptyCluster]]

\* Cycle: the cycles begun. Start: the heap when the mark of the cycle began.
\* Traced: the objects whose slots a worker has visited in the cycle. WeakRecorded:
\* the weak slots recorded in the cycle. Dissolved: the clusters the cycle dissolved.
\* KeptMembers: the members of the clusters whose root was reachable at the end of
\* the reachability analysis.
\* Subscribers: the broadcasts after the reachability analysis of the cycle.
\* PrevDissolved: the clusters the cycle before dissolved.
\* PurgeAtStart: the purge of the cycle before was pending when the cycle started.
\* List: GUnreachableObjects as gathered. Unhashed: the objects on which
\* UnhashUnreachableObjects has invoked ConditionalBeginDestroy, in the order of the calls.
\* The times object o is in the array seq.
Times(seq, o) == Cardinality({i \in 1..Len(seq) : seq[i] = o})

InitHist == [BeginDestroy |-> [o \in Obj |-> 0], FinishDestroy |-> [o \in Obj |-> 0],
             PostPurgeGarbage |-> 0, Trim |-> 0, Gathered |-> {}, TimeSliced |-> FALSE,
             Deferred |-> {}, Cycle |-> 0, Start |-> NoHeap, Traced |-> {},
             WeakRecorded |-> {}, Dissolved |-> {}, KeptMembers |-> {},
             Subscribers |-> 0, PrevDissolved |-> {}, PurgeAtStart |-> FALSE,
             List |-> <<>>, Unhashed |-> <<>>, Added |-> [o \in Obj |-> 0],
             Claimed |-> [w \in WorkerIds |-> 0], Premature |-> FALSE,
             Routed |-> [o \in Obj |-> 0]]

\* ------------------------------------------------------------ the heap
\* The heaps a cycle starts from. Cluster i has the object 2i-1 as its root and the
\* object 2i as its member; the root holds a strong reference to the member.
ClusterCounts == {n \in 0..MaxClusters : 2 * n <= NumObjects}

\* The root (the cluster index) of the cluster of o, or 0.
LayoutCluster(nc, o) == IF o > 2 * nc THEN 0 ELSE IF o % 2 = 1 THEN o ELSE o - 1

LayoutIsRoot(nc, o) == o <= 2 * nc /\ o % 2 = 1

LayoutIsMember(nc, o) == o <= 2 * nc /\ o % 2 = 0

\* FUObjectItem::ClusterRootIndex: the root's index in a member, minus the cluster
\* index in a root.
LayoutOwnerIndex(nc, o) ==
    IF LayoutIsMember(nc, o) THEN o - 1 ELSE IF LayoutIsRoot(nc, o) THEN 0 - o ELSE 0

RefKinds == {"Strong", "Killable", "Weak"}

KindRank(k) == IF k = "Strong" THEN 0 ELSE IF k = "Killable" THEN 1 ELSE 2

\* The slots a heap may have: a killable slot only matters on an object flagged
\* garbage (elsewhere it is a strong slot).
SlotChoices(g) ==
    {[owner |-> o, target |-> t, kind |-> k] :
        o \in Obj, t \in Obj, k \in RefKinds} \ 
    {e \in [owner : Obj, target : Obj, kind : RefKinds] :
        e.owner = e.target \/ (e.kind = "Killable" /\ e.target # g)}

RECURSIVE SubsetsUpTo(_, _)
SubsetsUpTo(S, k) ==
    IF k = 0 THEN {{}}
    ELSE LET P == SubsetsUpTo(S, k - 1) IN P \cup {T \cup {e} : T \in P, e \in S}

SlotKey(e) == (e.owner * (NumObjects + 1) + e.target) * 3 + KindRank(e.kind)

RECURSIVE SlotsInOrder(_)
SlotsInOrder(S) ==
    IF S = {} THEN <<>>
    ELSE LET m == CHOOSE e \in S : \A f \in S : SlotKey(e) <= SlotKey(f)
         IN <<m>> \o SlotsInOrder(S \ {m})

\* The slot of each cluster root on its member.
ClusterSlots(nc) == [i \in 1..nc |-> [owner |-> 2 * i - 1, target |-> 2 * i, kind |-> "Strong"]]

\* Cluster construction (UObjectBaseUtility::CreateCluster): what the objects of
\* cluster c reference outside of it, other than weakly.
DirectTargets(refs, nc, c) ==
    {refs[i].target : i \in {j \in 1..Len(refs) :
        /\ refs[j].kind # "Weak"
        /\ LayoutCluster(nc, refs[j].owner) = c
        /\ LayoutCluster(nc, refs[j].target) # c}}

DirectClusters(refs, nc, c) == {LayoutCluster(nc, t) : t \in DirectTargets(refs, nc, c)} \ {0}

RECURSIVE ClusterClosure(_, _, _)
ClusterClosure(refs, nc, S) ==
    LET S2 == S \cup UNION {DirectClusters(refs, nc, d) : d \in S}
    IN IF S2 = S THEN S ELSE ClusterClosure(refs, nc, S2)

\* A cluster lists the clusters it references and the clusters they list, and the
\* mutable (unclustered) objects it and they reference.
LayoutClusters(refs, nc) ==
    [c \in Obj |->
        IF ~LayoutIsRoot(nc, c) THEN EmptyCluster
        ELSE LET all == ClusterClosure(refs, nc, {c})
             IN [Objects |-> {c + 1},
                 ReferencedClusters |-> all \ {c},
                 MutableObjects |->
                     UNION {{t \in DirectTargets(refs, nc, d) : LayoutCluster(nc, t) = 0}
                            : d \in all},
                 bNeedsDissolving |-> FALSE]]

RootKinds == {"RootSet", "GarbageCollectionKeepFlags", "KeepFlags"}

\* The flags of object o when R is the initial reachable set, flagged as kind, and g
\* is the object flagged garbage (0: none).
LayoutInternalFlags(nc, R, kind, g, o) ==
    (IF o \in R /\ kind # "KeepFlags" THEN {kind} ELSE {})
    \cup (IF o = g THEN {"Garbage"} ELSE {})
    \cup (IF LayoutIsRoot(nc, o) THEN {"ClusterRoot"} ELSE {})

\* Heaps the engine can be in: a root-set or kept object is not flagged garbage, an
\* object flagged garbage is not a cluster member, the caller's KeepFlags are on
\* unclustered objects, and a cluster whose root is flagged garbage has no kept
\* member and no cluster referencing it.
WellFormedHeap(nc, R, kind, g, refs) ==
    /\ g \notin R
    /\ g # 0 => ~LayoutIsMember(nc, g)
    /\ R = {} => kind = "RootSet"
    /\ kind = "KeepFlags" => \A o \in R : LayoutCluster(nc, o) = 0
    /\ g # 0 /\ LayoutIsRoot(nc, g) =>
          /\ g + 1 \notin R
          /\ \A c \in Obj : LayoutIsRoot(nc, c) /\ c # g =>
                g \notin ClusterClosure(refs, nc, {c})
    /\ g # 0 /\ ~LayoutIsRoot(nc, g) => \E i \in 1..Len(refs) : refs[i].target = g

\* ------------------------------------------------ reference processing
\* The operators below work on a record st of what reference processing reads and
\* writes: Flags (the internal flags), Owner (ClusterRootIndex), Clusters, Refs (the
\* slots), Out (the container ObjectsToSerialize, in the order of Add), Weak (the
\* weak slots recorded) and bAdd (bAddClusterObjectsToSerialize of the running
\* MarkReferencedClustersAsReachable).
SetMin(S) == CHOOSE x \in S : \A y \in S : x <= y

\* ClearUnreachableInterlocked, were it to leave the flag.
KeepUnreachable(st, o) == st

\* ClearUnreachableInterlocked and FUObjectItem::ClearFlags(Unreachable)
ClearUnreachable(st, o) == [st EXCEPT !.Flags[o] = @ \ {"Unreachable"}]

AddToSerialize(st, o) == [st EXCEPT !.Out = Append(@, o)]

RECURSIVE AddAllToSerialize(_, _)
AddAllToSerialize(st, S) ==
    IF S = {} THEN st
    ELSE AddAllToSerialize(AddToSerialize(st, SetMin(S)), S \ {SetMin(S)})

\* The loop of MarkReferencedClustersAsReachable over the clusters S that cluster c
\* references and has yet to visit.
RECURSIVE MarkReferencedClusters(_, _, _)
MarkReferencedClusters(st, c, S) ==
    IF S = {} THEN st
    ELSE LET rc == SetMin(S)
             st1 == IF "Garbage" \notin st.Flags[rc]
                    THEN ClearUnreachable(st, rc)
                    ELSE [st EXCEPT !.Clusters[c].ReferencedClusters = @ \ {rc},
                                    !.bAdd = TRUE]
         IN MarkReferencedClusters(st1, c, S \ {rc})

RECURSIVE MarkReferencedClustersAsReachable(_, _)
RECURSIVE MarkClusterMutableObjectsAsReachable(_, _, _)

\* The loop of MarkClusterMutableObjectsAsReachable over the mutable objects S that
\* cluster c references and has yet to visit.
MarkClusterMutableObjectsAsReachable(st, c, S) ==
    IF S = {} THEN st
    ELSE LET m == SetMin(S)
             root == st.Owner[m]
             st1 ==
                IF "Garbage" \in st.Flags[m]
                THEN [st EXCEPT !.Clusters[c].MutableObjects = @ \ {m}, !.bAdd = TRUE]
                ELSE IF "Unreachable" \in st.Flags[m]
                THEN LET s1 == AddToSerialize(ClearUnreachable(st, m), m)
                     IN IF st.Owner[m] < 0
                        THEN MarkReferencedClustersAsReachable(s1, 0 - st.Owner[m])
                        ELSE s1
                ELSE IF st.Owner[m] > 0 /\ "ReachableInCluster" \notin st.Flags[m]
                THEN LET s1 == [st EXCEPT !.Flags[m] = @ \cup {"ReachableInCluster"}]
                     IN IF "Unreachable" \in s1.Flags[root]
                        THEN MarkReferencedClustersAsReachable(
                                 ClearUnreachable(s1, root), 0 - s1.Owner[root])
                        ELSE s1
                ELSE st
         IN MarkClusterMutableObjectsAsReachable(st1, c, S \ {m})

MarkReferencedClustersAsReachable(st, c) ==
    LET s1 == MarkReferencedClusters([st EXCEPT !.bAdd = FALSE], c,
                                     st.Clusters[c].ReferencedClusters)
        s2 == MarkClusterMutableObjectsAsReachable(s1, c, s1.Clusters[c].MutableObjects)
        s3 == IF s2.bAdd
              THEN [AddAllToSerialize(s2, s2.Clusters[c].Objects)
                       EXCEPT !.Clusters[c].bNeedsDissolving = TRUE]
              ELSE s2
    IN [s3 EXCEPT !.bAdd = st.bAdd]

\* TReachabilityProcessor::HandleValidReference: the thread that clears Unreachable
\* on an object is the one that adds it, or marks what its cluster references; a
\* reference to a cluster member marks the member and makes its root reachable.
HandleValidReference(st, o) ==
    IF "Unreachable" \in st.Flags[o]
    THEN IF "ClusterRoot" \notin st.Flags[o]
         THEN AddToSerialize(ClearUnreachable(st, o), o)
         ELSE MarkReferencedClustersAsReachable(ClearUnreachable(st, o), 0 - st.Owner[o])
    ELSE IF st.Owner[o] > 0 /\ "ReachableInCluster" \notin st.Flags[o]
    THEN LET s1 == [st EXCEPT !.Flags[o] = @ \cup {"ReachableInCluster"}]
             root == st.Owner[o]
         IN IF "Unreachable" \in s1.Flags[root]
            THEN MarkReferencedClustersAsReachable(ClearUnreachable(s1, root),
                                                   0 - s1.Owner[root])
            ELSE s1
    ELSE st

ProcessReferenceWithoutKill(st, i, t) ==
    IF t = 0 THEN st
    ELSE IF st.Refs[i].kind = "Weak" THEN [st EXCEPT !.Weak = @ \cup {i}]
    ELSE HandleValidReference(st, t)

\* The visit of slot i, which holds t (0: nothing): a weak slot is recorded
\* (FWorkerContext::WeakReferences), a killable slot on an object that carries the
\* kill flag is nulled (ProcessReferenceDirectly, HandleBatchedReference), any other
\* slot is a valid reference.
ProcessReference(st, i, t) ==
    IF t = 0 THEN st
    ELSE IF st.Refs[i].kind = "Weak" THEN [st EXCEPT !.Weak = @ \cup {i}]
    ELSE IF st.Refs[i].kind = "Killable" /\ "Garbage" \in st.Flags[t]
    THEN [st EXCEPT !.Refs[i].target = 0]
    ELSE HandleValidReference(st, t)

\* ------------------------------------------------------ the mark phase
\* The stripes of the parallel loops of MarkObjectsAsUnreachable and
\* GatherUnreachableObjects: the object array holds NumObjects objects from index 0
\* (object o of the model has index o - 1), split among nt threads.
NumberOfObjectsPerThread(nt) == (NumObjects \div nt) + 1

FirstObjectIndex(nt, t) == t * NumberOfObjectsPerThread(nt)

\* The objects of a stripe, were the last thread to take none.
StripeNumObjectsWithoutRest(nt, t) ==
    IF t < nt - 1 THEN NumberOfObjectsPerThread(nt) ELSE 0

StripeNumObjects(nt, t) ==
    IF t < nt - 1 THEN NumberOfObjectsPerThread(nt)
    ELSE NumObjects - (nt - 1) * NumberOfObjectsPerThread(nt)

LastObjectIndex(nt, t) ==
    Min(NumObjects - 1, FirstObjectIndex(nt, t) + StripeNumObjects(nt, t) - 1)

Stripe(nt, t) == {o \in Obj : FirstObjectIndex(nt, t) <= o - 1 /\ o - 1 <= LastObjectIndex(nt, t)}

RECURSIVE SetInOrder(_)
SetInOrder(S) == IF S = {} THEN <<>> ELSE <<SetMin(S)>> \o SetInOrder(S \ {SetMin(S)})

\* The objects in the order the stripes visit them, one thread after the other
\* (the order in which the threads append to the lock-free lists is not modelled).
RECURSIVE StripesInOrder(_, _)
StripesInOrder(nt, t) ==
    IF t >= nt THEN <<>> ELSE SetInOrder(Stripe(nt, t)) \o StripesInOrder(nt, t + 1)

IsGarbage(st, o) == st.Flags[o] \cap {"PendingKill", "Garbage"} # {}

\* The body of the loop of MarkObjectsAsUnreachable for object o. live: the objects
\* whose slot of the object array is not null; kept: those with one of KeepFlags.
MarkObjectWithoutUnreachable(st, o, live, kept) ==
    IF o \notin live \/ "RootSet" \notin st.Flags[o] THEN st
    ELSE [st EXCEPT !.Out = Append(@, o)]

\* The body of the loop, were a cluster root flagged garbage to join the clusters to
\* dissolve instead of becoming unreachable.
MarkObjectDissolveOnly(st, o, live, kept) ==
    IF o \notin live THEN st
    ELSE LET s0 == [st EXCEPT !.Flags[o] = @ \ {"ReachableInCluster"}]
             bCluster == "ClusterRoot" \in s0.Flags[o] \/ s0.Owner[o] > 0
             bKeep == \/ "GarbageCollectionKeepFlags" \in s0.Flags[o]
                      \/ "PendingKill" \notin s0.Flags[o] /\ o \in kept
         IN IF "RootSet" \in s0.Flags[o]
            THEN [s0 EXCEPT !.Out = Append(@, o),
                            !.KeepClusterRefs = IF bCluster THEN Append(@, o) ELSE @]
            ELSE IF s0.Owner[o] > 0
            THEN IF "GarbageCollectionKeepFlags" \in s0.Flags[o]
                 THEN [s0 EXCEPT !.Out = Append(@, o), !.KeepClusterRefs = Append(@, o)]
                 ELSE s0
            ELSE IF bKeep
            THEN [s0 EXCEPT !.Out = Append(@, o),
                            !.KeepClusterRefs = IF "ClusterRoot" \in s0.Flags[o]
                                                THEN Append(@, o) ELSE @]
            ELSE IF IsGarbage(s0, o) /\ "ClusterRoot" \in s0.Flags[o]
            THEN [s0 EXCEPT !.ClustersToDissolve = Append(@, o)]
            ELSE [s0 EXCEPT !.Flags[o] = @ \cup {"Unreachable"}]

MarkObject(st, o, live, kept) ==
    IF o \notin live THEN st
    ELSE LET s0 == [st EXCEPT !.Flags[o] = @ \ {"ReachableInCluster"}]
             bCluster == "ClusterRoot" \in s0.Flags[o] \/ s0.Owner[o] > 0
             bKeep == \/ "GarbageCollectionKeepFlags" \in s0.Flags[o]
                      \/ "PendingKill" \notin s0.Flags[o] /\ o \in kept
         IN IF "RootSet" \in s0.Flags[o]
            THEN [s0 EXCEPT !.Out = Append(@, o),
                            !.KeepClusterRefs = IF bCluster THEN Append(@, o) ELSE @]
            ELSE IF s0.Owner[o] > 0
            THEN IF "GarbageCollectionKeepFlags" \in s0.Flags[o]
                 THEN [s0 EXCEPT !.Out = Append(@, o), !.KeepClusterRefs = Append(@, o)]
                 ELSE s0
            ELSE IF bKeep
            THEN [s0 EXCEPT !.Out = Append(@, o),
                            !.KeepClusterRefs = IF "ClusterRoot" \in s0.Flags[o]
                                                THEN Append(@, o) ELSE @]
            ELSE [s0 EXCEPT !.Flags[o] = @ \cup {"Unreachable"},
                            !.ClustersToDissolve =
                                IF IsGarbage(s0, o) /\ "ClusterRoot" \in s0.Flags[o]
                                THEN Append(@, o) ELSE @]

RECURSIVE MarkObjects(_, _, _, _)
MarkObjects(st, objs, live, kept) ==
    IF objs = <<>> THEN st
    ELSE MarkObjects(MarkObject(st, Head(objs), live, kept), Tail(objs), live, kept)

\* FUObjectClusterContainer::FreeCluster: the root is a plain object again.
FreeCluster(st, c) ==
    [st EXCEPT !.Flags[c] = @ \ {"ClusterRoot"}, !.Owner[c] = 0,
               !.Clusters[c] = EmptyCluster]

\* The clusters that list cluster c as a cluster they reference.
ReferencedByClusters(st, c) ==
    {d \in Obj : "ClusterRoot" \in st.Flags[d] /\ c \in st.Clusters[d].ReferencedClusters}

\* FUObjectClusterContainer::DissolveCluster: the members are tracked one by one
\* from now on (with bMark: and unreachable, unless reached inside the cluster),
\* and the clusters that reference this one are dissolved as well.
RECURSIVE DissolveCluster(_, _, _)
RECURSIVE DissolveClustersIn(_, _, _)
DissolveCluster(st, c, bMark) ==
    IF "ClusterRoot" \notin st.Flags[c] THEN st
    ELSE LET members == st.Clusters[c].Objects
             by == ReferencedByClusters(st, c)
             s1 == [st EXCEPT
                      !.Owner = [o \in Obj |-> IF o \in members THEN 0 ELSE @[o]],
                      !.Flags = [o \in Obj |->
                                   IF bMark /\ o \in members
                                            /\ "ReachableInCluster" \notin @[o]
                                   THEN @[o] \cup {"Unreachable"} ELSE @[o]],
                      !.Dissolved = @ \cup {c}]
         IN DissolveClustersIn(FreeCluster(s1, c), by, bMark)

DissolveClustersIn(st, S, bMark) ==
    IF S = {} THEN st
    ELSE DissolveClustersIn(DissolveCluster(st, SetMin(S), bMark), S \ {SetMin(S)}, bMark)

\* The loop over KeepClusterRefs at the end of MarkObjectsAsUnreachable.
RECURSIVE KeepClusterRefs(_, _)
KeepClusterRefs(st, objs) ==
    IF objs = <<>> THEN st
    ELSE LET o == Head(objs)
             root == st.Owner[o]
             s1 == IF st.Owner[o] > 0
                   THEN IF "ReachableInCluster" \in st.Flags[o] THEN st
                        ELSE LET s0 == [st EXCEPT !.Flags[o] = @ \cup {"ReachableInCluster"}]
                             IN IF "Unreachable" \in s0.Flags[root]
                                THEN MarkReferencedClustersAsReachable(
                                         ClearUnreachable(s0, root), 0 - s0.Owner[root])
                                ELSE s0
                   ELSE IF "ClusterRoot" \in st.Flags[o]
                   THEN MarkReferencedClustersAsReachable(st, 0 - st.Owner[o])
                   ELSE st
         IN KeepClusterRefs(s1, Tail(objs))

\* FRealtimeGC::MarkObjectsAsUnreachable with nt threads: the parallel loop, the
\* initial objects, the clusters whose root is garbage, the kept cluster objects.
MarkObjectsAsUnreachable(st, nt, live, kept) ==
    LET s0 == [st EXCEPT !.Out = <<>>, !.KeepClusterRefs = <<>>,
                         !.ClustersToDissolve = <<>>]
        s1 == MarkObjects(s0, StripesInOrder(nt, 0), live, kept)
        s2 == DissolveClustersIn(s1, Range(s1.ClustersToDissolve), TRUE)
    IN KeepClusterRefs(s2, s2.KeepClusterRefs)

\* --------------------------------------- gather, weak references, Init
\* The loop of GatherUnreachableObjects over the roots of unreachable clusters: the
\* members not reached inside the cluster become unreachable and join the list.
\* The loop, were it to free the clusters and leave their members as they are.
RECURSIVE DestroyClustersWithoutMembers(_, _)
DestroyClustersWithoutMembers(st, roots) ==
    IF roots = <<>> THEN st
    ELSE LET c == Head(roots)
             members == st.Clusters[c].Objects
             s1 == [st EXCEPT
                      !.Flags[c] = @ \ {"ClusterRoot"},
                      !.Owner = [o \in Obj |-> IF o \in members THEN 0 ELSE @[o]]]
         IN DestroyClustersWithoutMembers(FreeCluster(s1, c), Tail(roots))

\* The loop, were it to leave the owner index of the members as it is.
RECURSIVE DestroyClustersKeepingOwner(_, _)
DestroyClustersKeepingOwner(st, roots) ==
    IF roots = <<>> THEN st
    ELSE LET c == Head(roots)
             members == st.Clusters[c].Objects
             added == {m \in members : "ReachableInCluster" \notin st.Flags[m]}
             s1 == [st EXCEPT
                      !.Flags = [o \in Obj |->
                                   IF o = c THEN @[o] \ {"ClusterRoot"}
                                   ELSE IF o \in added THEN @[o] \cup {"Unreachable"}
                                   ELSE @[o]],
                      !.Out = @ \o SetInOrder(added)]
         IN DestroyClustersKeepingOwner(FreeCluster(s1, c), Tail(roots))

RECURSIVE DestroyClusters(_, _)
DestroyClusters(st, roots) ==
    IF roots = <<>> THEN st
    ELSE LET c == Head(roots)
             members == st.Clusters[c].Objects
             added == {m \in members : "ReachableInCluster" \notin st.Flags[m]}
             s1 == [st EXCEPT
                      !.Flags = [o \in Obj |->
                                   IF o = c THEN @[o] \ {"ClusterRoot"}
                                   ELSE IF o \in added THEN @[o] \cup {"Unreachable"}
                                   ELSE @[o]],
                      !.Owner = [o \in Obj |-> IF o \in members THEN 0 ELSE @[o]],
                      !.Out = @ \o SetInOrder(added)]
         IN DestroyClusters(FreeCluster(s1, c), Tail(roots))

GatherUnreachableObjectsOfAllClusters(st, nt) ==
    LET list == SelectSeq(StripesInOrder(nt, 0), LAMBDA o : "Unreachable" \in st.Flags[o])
        roots == SelectSeq(StripesInOrder(nt, 0), LAMBDA o : "ClusterRoot" \in st.Flags[o])
    IN DestroyClusters([st EXCEPT !.Out = list], roots)

\* GatherUnreachableObjects with nt threads; Out is GUnreachableObjects.
GatherUnreachableObjects(st, nt) ==
    LET list == SelectSeq(StripesInOrder(nt, 0), LAMBDA o : "Unreachable" \in st.Flags[o])
        roots == SelectSeq(list, LAMBDA o : "ClusterRoot" \in st.Flags[o])
    IN DestroyClusters([st EXCEPT !.Out = list], roots)

\* FUObjectClusterContainer::DissolveClusters: the clusters that need dissolving.
DissolveClusters(st) ==
    DissolveClustersIn(st, {c \in Obj : st.Clusters[c].bNeedsDissolving}, FALSE)

ClearNoWeakReferences(refs, flags, W, D) == refs

\* ClearWeakReferences over the weak slots W recorded by all contexts. D: the slots
\* among those on a destroyed object in which the read of its flags finds
\* Unreachable (the memory of the object has been freed).
ClearWeakReferences(refs, flags, W, D) ==
    [i \in 1..Len(refs) |->
        IF i \in W /\ refs[i].target # 0
           /\ (i \in D \/ "Unreachable" \in flags[refs[i].target])
        THEN [refs[i] EXCEPT !.target = 0] ELSE refs[i]]

\* What reference processing starts from in the current state.
HeapState ==
    [Flags |-> InternalFlags, Owner |-> OwnerIndex, Clusters |-> Clusters, Refs |-> Refs,
     Out |-> <<>>, Weak |-> {}, bAdd |-> FALSE, KeepClusterRefs |-> <<>>,
     ClustersToDissolve |-> <<>>, Dissolved |-> {}]

\* The slots of the heaps of Init. Up to the order of the objects, the weak slots and
\* the slots on the object flagged garbage are on the last object, which holds no
\* slot itself; a slot on an object of the initial reachable set changes nothing.
HeapSlotChoices(nc, R, g) ==
    {e \in SlotChoices(g) :
        /\ e.owner # NumObjects
        /\ e.target \notin R
        /\ e.kind = "Weak" => e.target = NumObjects
        /\ ~(LayoutIsRoot(nc, e.owner) /\ e.target = e.owner + 1)}

\* ------------------------------------- the program outside a collection
\* The value of gc.NumRetriesBeforeForcingGC when the console has not set it.
DefaultNumRetriesBeforeForcingGC == 10

InitTryHist == [Tried |-> FALSE, Busy |-> FALSE, AttemptsAtCall |-> 0, Blocked |-> FALSE,
                RanCycle |-> FALSE, Result |-> "None", Skipped |-> 0]

\* No call of TryCollectGarbage so far, no thread holds the GC lock.
NoTryCollectGarbage ==
    /\ GIsInitialLoad = FALSE
    /\ GNumAttemptsSinceLastGC = 0
    /\ GNumRetriesBeforeForcingGC = DefaultNumRetriesBeforeForcingGC
    /\ AsyncCounter = 0
    /\ tryHist = InitTryHist

\* FPageAllocator after construction: Num = 0 in every worker cache, no shared page.
NewPageAllocator == [WorkerCaches |-> [w \in PageWorkerIds |-> 0], SharedCache |-> 0]

InitPageHist == [InUse |-> 0, Malloc |-> 0, Freed |-> 0, Shutdown |-> FALSE]

Capacity == 2 ^ CapacityBits
\* Head and Tail are uint32; the model keeps them modulo a multiple of Capacity.
CounterModulus == 4 * Capacity
FreeSlot == 0
TakenSlot == 1
\* The addresses of work blocks are the values above TakenSlot.
Blocks == 2..(MaxBlocks + 1)
ThiefIds == 1..MaxThieves

\* FBoundedWorkstealingQueue after construction: Head { ~0u }, Tail { 0 }, Slots = {}.
NewBoundedWorkstealingQueue ==
    [Slots |-> [i \in 0..(Capacity - 1) |-> FreeSlot], Head |-> CounterModulus - 1, Tail |-> 0]

IdleThief == [pc |-> "Idle", IdxVer |-> 0, Idx |-> 0, Slot |-> FreeSlot]

IdleOwner == [pc |-> "Idle", Out |-> FreeSlot]

\* Outstanding: the blocks pushed and not yet returned. Twice: a block was returned
\* that was not outstanding. Overflow, Popped, Stolen: a block went to LocalBlocks,
\* was returned by Pop, was returned by Steal.
InitQueueHist == [Outstanding |-> {}, Twice |-> FALSE, Pushes |-> 0, Overflow |-> FALSE,
                  Popped |-> FALSE, Stolen |-> FALSE]

NoScratchPages ==
    /\ GScratchPages = NewPageAllocator
    /\ pageHist = InitPageHist

\* FAROQueueStore after construction, before the queues of the workers are set up.
NewAROQueueStore == [NumBlocks |-> 0, bFull |-> FALSE, Blocks |-> <<>>]

InitAROHist == [Pushed |-> 0, Rejected |-> {}, Returned |-> {}, Twice |-> FALSE]

NoAROQueues ==
    /\ GAROBlocks = NewAROQueueStore
    /\ AROQueues = <<>>
    /\ AROThreads = <<>>
    /\ aroHist = InitAROHist

\* The worker contexts a program can hold at a time.
ContextIds == 1..MaxContexts

INDEX_NONE == -1

\* No FWorkerContext has been constructed: the pool is empty and every index free.
NoWorkerContexts ==
    /\ GWorkerIndices = {}
    /\ ContextPool = [Reusable |-> <<>>, NumAllocated |-> 0]
    /\ WorkerIndex = <<>>
    /\ Reachability = [pc |-> "Idle", Contexts |-> <<>>, NumWorkers |-> 0, Returned |-> 0]

SlowWorkers == 0..(MaxSlowWorkers - 1)

\* The static storage of GSlowARO before FSlowAROManager is constructed in it: zeroes.
NewSlowAROManager ==
    [bValid |-> FALSE, NumAROs |-> 0, ExtraSlowAROs |-> {}, NumWorkers |-> 0,
     AllQueues |-> <<>>]

NoStealing(bDoCheck) ==
    [bDoCheck |-> bDoCheck, pc |-> "Idle",
     Loot |-> [w \in SlowWorkers |-> "NoContext"],
     NumCalls |-> [w \in SlowWorkers |-> 0]]

\* No slow ARO is registered and no worker steals.
NoSlowAROs ==
    /\ GSlowARO = NewSlowAROManager
    /\ Stealing = NoStealing(TRUE)

NoWorkstealing ==
    /\ SharedBlocks = NewBoundedWorkstealingQueue
    /\ LocalBlocks = <<>>
    /\ Owner = IdleOwner
    /\ Thieves = [t \in ThiefIds |-> IdleThief]
    /\ queueHist = InitQueueHist

\* Up to the order of the objects, an unclustered object of the initial reachable set
\* is the first unclustered object, and an unclustered object flagged garbage the last.
CanonicalHeap(nc, R, kind, g) ==
    /\ R \subseteq 1..(2 * nc + 1)
    /\ g \in {0, NumObjects} \cup {c \in Obj : LayoutIsRoot(nc, c)}
    /\ kind = "GarbageCollectionKeepFlags" => \A o \in R : LayoutCluster(nc, o) # 0

Init ==
    \E nc \in ClusterCounts, R \in SubsetsUpTo(Obj, MaxRoots), kind \in RootKinds,
       g \in 0..NumObjects :
      /\ CanonicalHeap(nc, R, kind, g)
      /\ \E E \in SubsetsUpTo(HeapSlotChoices(nc, R, g), MaxRefs) :
           LET refs == ClusterSlots(nc) \o SlotsInOrder(E)
           IN /\ WellFormedHeap(nc, R, kind, g, refs)
              /\ Refs = refs
              /\ Clusters = LayoutClusters(refs, nc)
      /\ Object = [o \in Obj |-> TRUE]
      /\ InternalFlags = [o \in Obj |-> LayoutInternalFlags(nc, R, kind, g, o)]
      /\ ObjectFlags = [o \in Obj |-> IF o \in R /\ kind = "KeepFlags"
                                      THEN {"KeepFlags"} ELSE {}]
      /\ OwnerIndex = [o \in Obj |-> LayoutOwnerIndex(nc, o)]
      /\ IsDestructionThreadSafe = [o \in Obj |-> TRUE]
      /\ IsReadyForFinishDestroy = [o \in Obj |-> TRUE]
      /\ GUnreachableObjects = <<>>
      /\ GUnrechableObjectIndex = 0
      /\ GObjPurgeIsRequired = FALSE
      /\ GObjIncrementalPurgeIsInProgress = FALSE
      /\ GObjFinishDestroyHasBeenRoutedToAllObjects = FALSE
      /\ GObjCurrentPurgeObjectIndex = 0
      /\ GObjCurrentPurgeObjectIndexNeedsReset = TRUE
      /\ GGCObjectsPendingDestruction = <<>>
      /\ GGCObjectsPendingDestructionCount = 0
      /\ GAsyncPurge = NewAsyncPurge(FALSE)
      /\ InternalArrayLock = "None"
      /\ Frame = IdleFrame
      /\ PurgeThread = [pc |-> "Wait", LocalNumObjectsToDestroyOnGameThread |-> 0]
      /\ Destructed = [o \in Obj |-> 0]
      /\ DestructedBy = [o \in Obj |-> {}]
      /\ GCLock = FALSE
      /\ NumWorkerThreads \in 1..MaxThreads
      /\ InitialObjects = <<>>
      /\ Workers = [w \in WorkerIds |-> IdleWorker]
      /\ Coordinator = NoCoordinator
      /\ hist = InitHist
      /\ NoTryCollectGarbage
      /\ NoScratchPages
      /\ NoWorkstealing
      /\ NoAROQueues
      /\ NoWorkerContexts
      /\ NoSlowAROs

\* ------------------------------------------------------- the purge: Init
\* The state CollectGarbageImpl leaves when it returns without a full purge and
\* with incremental BeginDestroy enabled: k gathered objects, nothing unhashed.
InitPurge ==
    \E k \in 0..MaxUnreachable :
        /\ Object = [o \in Obj |-> TRUE]
        /\ InternalFlags = [o \in Obj |-> IF o <= k THEN {"Unreachable"} ELSE {"RootSet"}]
        /\ ObjectFlags = [o \in Obj |-> {}]
        /\ OwnerIndex = [o \in Obj |-> 0]
        /\ Clusters = [o \in Obj |-> EmptyCluster]
        /\ Refs = <<>>
        /\ IsDestructionThreadSafe \in [Obj -> BOOLEAN]
        /\ IsReadyForFinishDestroy \in [Obj -> BOOLEAN]
        /\ \A o \in Obj : o > k => IsDestructionThreadSafe[o] /\ IsReadyForFinishDestroy[o]
        /\ GUnreachableObjects = [i \in 1..k |-> i]
        /\ GUnrechableObjectIndex = 0
        /\ GObjPurgeIsRequired = TRUE
        /\ GObjIncrementalPurgeIsInProgress = FALSE
        /\ GObjFinishDestroyHasBeenRoutedToAllObjects = FALSE
        /\ GObjCurrentPurgeObjectIndex = 0
        /\ GObjCurrentPurgeObjectIndexNeedsReset = TRUE
        /\ GGCObjectsPendingDestruction = <<>>
        /\ GGCObjectsPendingDestructionCount = 0
        /\ \E mt \in BOOLEAN : GAsyncPurge = NewAsyncPurge(mt)
        /\ InternalArrayLock = "None"
        /\ Frame = IdleFrame
        /\ PurgeThread = [pc |-> "Wait", LocalNumObjectsToDestroyOnGameThread |-> 0]
        /\ Destructed = [o \in Obj |-> 0]
        /\ DestructedBy = [o \in Obj |-> {}]
        /\ GCLock = FALSE
        /\ NumWorkerThreads = 1
        /\ InitialObjects = <<>>
        /\ Workers = [w \in WorkerIds |-> IdleWorker]
        /\ Coordinator = NoCoordinator
        /\ hist = [InitHist EXCEPT !.Gathered = 1..k, !.List = [i \in 1..k |-> i]]
        /\ NoTryCollectGarbage
        /\ NoScratchPages
        /\ NoWorkstealing
        /\ NoAROQueues
        /\ NoWorkerContexts
        /\ NoSlowAROs

\* ------------------------------------------- the purge: the game thread
\* IncrementalPurgeGarbage, from its entry to the first loop it runs. The call
\* returns to ret.
CallIncrementalPurgeGarbageWithoutEarlyOut(bUseTimeLimit, ret) ==
    IF ~GObjPurgeIsRequired
    THEN /\ GObjIncrementalPurgeIsInProgress' = FALSE
         /\ hist' = [hist EXCEPT !.Trim = Cap(@ + 1)]
         /\ Frame' = [CallerFrame EXCEPT !.pc = ret]
    ELSE /\ GObjIncrementalPurgeIsInProgress' = TRUE
         /\ Frame' = [CallerFrame EXCEPT
                        !.pc = IF GUnrechableObjectIndex < Len(GUnreachableObjects)
                               THEN "Unhash" ELSE "IncrementalDestroyGarbage",
                        !.unhashRet = IF GUnrechableObjectIndex < Len(GUnreachableObjects)
                                      THEN "IncrementalPurgeGarbage" ELSE "None",
                        !.ret = ret, !.bUseTimeLimit = bUseTimeLimit]
         /\ UNCHANGED hist

CallIncrementalPurgeGarbage(bUseTimeLimit, ret) ==
    IF ~GObjPurgeIsRequired /\ ~GObjIncrementalPurgeIsInProgress
    THEN \* early out: there is nothing to do
         /\ Frame' = [CallerFrame EXCEPT !.pc = ret]
         /\ UNCHANGED <<GObjIncrementalPurgeIsInProgress, hist>>
    ELSE IF ~GObjPurgeIsRequired
    THEN \* the purge was completed last tick: trim, and the purge is over
         /\ GObjIncrementalPurgeIsInProgress' = FALSE
         /\ hist' = [hist EXCEPT !.Trim = Cap(@ + 1)]
         /\ Frame' = [CallerFrame EXCEPT !.pc = ret]
    ELSE /\ GObjIncrementalPurgeIsInProgress' = TRUE
         /\ Frame' = [CallerFrame EXCEPT
                        !.pc = IF GUnrechableObjectIndex < Len(GUnreachableObjects)
                               THEN "Unhash" ELSE "IncrementalDestroyGarbage",
                        !.unhashRet = IF GUnrechableObjectIndex < Len(GUnreachableObjects)
                                      THEN "IncrementalPurgeGarbage" ELSE "None",
                        !.ret = ret, !.bUseTimeLimit = bUseTimeLimit]
         /\ UNCHANGED hist

\* A tick of the engine calls IncrementalPurgeGarbage, with or without a time limit.
IncrementalPurgeGarbage ==
    /\ Frame.pc = "Idle"
    /\ \E bUseTimeLimit \in BOOLEAN : CallIncrementalPurgeGarbage(bUseTimeLimit, "Idle")
    /\ UNCHANGED <<gcVars, heapVars, answerVars, unhashVars, asyncVars, dtorVars,
                   GObjPurgeIsRequired, GObjFinishDestroyHasBeenRoutedToAllObjects,
                   GObjCurrentPurgeObjectIndex, GObjCurrentPurgeObjectIndexNeedsReset,
                   GGCObjectsPendingDestruction, GGCObjectsPendingDestructionCount>>
    /\ UNCHANGED extVars

\* The return of IncrementalPurgeGarbage: the post-purge broadcast, "one last tick
\* for the memory trim" of a time-limited call, and ~FResetPurgeProgress.
ReturnFromIncrementalPurgeGarbage ==
    /\ Frame.pc = "IncrementalPurgeGarbageReturn"
    /\ hist' = [hist EXCEPT !.PostPurgeGarbage = IF Frame.bCompleted THEN Cap(@ + 1) ELSE @,
                            !.TimeSliced = @ \/ Frame.bTimeExpired]
    /\ GObjIncrementalPurgeIsInProgress' =
           IF Frame.bCompleted /\ ~Frame.bUseTimeLimit THEN FALSE
           ELSE GObjIncrementalPurgeIsInProgress
    /\ Frame' = [CallerFrame EXCEPT !.pc = Frame.ret]
    /\ UNCHANGED <<gcVars, heapVars, answerVars, unhashVars, asyncVars, dtorVars,
                   GObjPurgeIsRequired, GObjFinishDestroyHasBeenRoutedToAllObjects,
                   GObjCurrentPurgeObjectIndex, GObjCurrentPurgeObjectIndexNeedsReset,
                   GGCObjectsPendingDestruction, GGCObjectsPendingDestructionCount>>
    /\ UNCHANGED extVars

\* UnhashUnreachableObjects without the saved cursor: a call that is cut short
\* leaves the cursor at the start of the list.
UnhashUnreachableObjectsFromStart ==
    /\ Frame.pc = "Unhash"
    /\ GUnrechableObjectIndex < Len(GUnreachableObjects)
    /\ LET o == GUnreachableObjects[GUnrechableObjectIndex + 1]
           bPollTimeLimit ==
               Frame.TimePollCounter % TimeLimitEnforcementGranularityForBeginDestroy = 0
       IN /\ ConditionalBeginDestroy(o)
          /\ \E expired \in (IF bPollTimeLimit THEN TimeLimitOutcomes(Frame) ELSE {FALSE}) :
              /\ GUnrechableObjectIndex' = IF expired THEN 0 ELSE GUnrechableObjectIndex + 1
              /\ Frame' = [Frame EXCEPT
                            !.TimePollCounter = NextPoll(@),
                            !.bTimeExpired = @ \/ expired,
                            !.pc = IF expired \/ GUnrechableObjectIndex'
                                                    >= Len(GUnreachableObjects)
                                   THEN "UnhashReturn" ELSE "Unhash"]
    /\ UNCHANGED <<gcVars, Object, InternalFlags, OwnerIndex, Clusters, Refs, answerVars,
                   GUnreachableObjects, purgeVars, asyncVars, dtorVars>>
    /\ UNCHANGED extVars

\* One iteration of the loop of UnhashUnreachableObjects.
UnhashUnreachableObjects ==
    /\ Frame.pc = "Unhash"
    /\ GUnrechableObjectIndex < Len(GUnreachableObjects)
    /\ LET o == GUnreachableObjects[GUnrechableObjectIndex + 1]
           bPollTimeLimit ==
               Frame.TimePollCounter % TimeLimitEnforcementGranularityForBeginDestroy = 0
       IN /\ ConditionalBeginDestroy(o)
          /\ GUnrechableObjectIndex' = GUnrechableObjectIndex + 1
          /\ \E expired \in (IF bPollTimeLimit THEN TimeLimitOutcomes(Frame) ELSE {FALSE}) :
                Frame' = [Frame EXCEPT
                            !.TimePollCounter = NextPoll(@),
                            !.bTimeExpired = @ \/ expired,
                            !.pc = IF expired \/ GUnrechableObjectIndex'
                                                    >= Len(GUnreachableObjects)
                                   THEN "UnhashReturn" ELSE "Unhash"]
    /\ UNCHANGED <<gcVars, Object, InternalFlags, OwnerIndex, Clusters, Refs, answerVars,
                   GUnreachableObjects, purgeVars, asyncVars, dtorVars>>
    /\ UNCHANGED extVars

\* The return of UnhashUnreachableObjects to IncrementalPurgeGarbage: the time limit
\* has been reached when objects are left to unhash.
ReturnFromUnhashUnreachableObjects ==
    /\ Frame.pc = "UnhashReturn"
    /\ Frame.unhashRet = "IncrementalPurgeGarbage"
    /\ LET bTimeLimitReached == GUnrechableObjectIndex < Len(GUnreachableObjects)
       IN Frame' = [Frame EXCEPT
                      !.TimePollCounter = 0, !.unhashRet = "None",
                      !.pc = IF bTimeLimitReached THEN "IncrementalPurgeGarbageReturn"
                             ELSE "IncrementalDestroyGarbage"]
    /\ UNCHANGED <<gcVars, heapVars, answerVars, unhashVars, purgeVars, asyncVars, dtorVars, hist>>
    /\ UNCHANGED extVars

\* Where IncrementalDestroyGarbage would go, were the deletion to start with objects
\* still pending destruction.
AfterFinishDestroyUnrouted(routed, reached) ==
    IF ~reached THEN "DestroyObjects" ELSE "IncrementalPurgeGarbageReturn"

\* Where IncrementalDestroyGarbage goes after the deferred objects: the deletion, or
\* its return.
AfterFinishDestroy(routed, reached) ==
    IF routed /\ ~reached THEN "DestroyObjects" ELSE "IncrementalPurgeGarbageReturn"

\* "Have all objects been destroyed now?": the end of the FinishDestroy section.
FinishDestroyRouted(count, f) ==
    /\ GObjFinishDestroyHasBeenRoutedToAllObjects' = (count = 0)
    /\ GObjCurrentPurgeObjectIndexNeedsReset' =
           IF count = 0 THEN TRUE ELSE GObjCurrentPurgeObjectIndexNeedsReset
    /\ Frame' = [f EXCEPT !.pc = AfterFinishDestroy(count = 0, f.bTimeLimitReached),
                          !.CurPendingObjIndex = 0, !.TimePollCounter = 0]

\* The entry of IncrementalDestroyGarbage.
IncrementalDestroyGarbage ==
    /\ Frame.pc = "IncrementalDestroyGarbage"
    /\ IF GObjFinishDestroyHasBeenRoutedToAllObjects
       THEN /\ Frame' = [Frame EXCEPT !.pc = "DestroyObjects"]
            /\ UNCHANGED <<GObjCurrentPurgeObjectIndex, GObjCurrentPurgeObjectIndexNeedsReset,
                           GObjFinishDestroyHasBeenRoutedToAllObjects,
                           GGCObjectsPendingDestruction>>
       ELSE LET index == IF GObjCurrentPurgeObjectIndexNeedsReset THEN 0
                         ELSE GObjCurrentPurgeObjectIndex
            IN /\ GObjCurrentPurgeObjectIndex' = index
               /\ IF index < Len(GUnreachableObjects)
                  THEN /\ Frame' = [Frame EXCEPT !.pc = "FinishDestroy"]
                       /\ GObjCurrentPurgeObjectIndexNeedsReset' = FALSE
                       /\ UNCHANGED <<GObjFinishDestroyHasBeenRoutedToAllObjects,
                                      GGCObjectsPendingDestruction>>
                  ELSE IF GGCObjectsPendingDestructionCount > 0
                  THEN /\ Frame' = [Frame EXCEPT !.pc = "FinishDestroyDeferred"]
                       /\ GObjCurrentPurgeObjectIndexNeedsReset' = FALSE
                       /\ UNCHANGED <<GObjFinishDestroyHasBeenRoutedToAllObjects,
                                      GGCObjectsPendingDestruction>>
                  ELSE /\ FinishDestroyRouted(0, Frame)
                       /\ GGCObjectsPendingDestruction' = <<>>
    /\ UNCHANGED <<gcVars, heapVars, answerVars, unhashVars, asyncVars, dtorVars, hist,
                   GObjPurgeIsRequired, GObjIncrementalPurgeIsInProgress,
                   GGCObjectsPendingDestructionCount>>
    /\ UNCHANGED extVars

\* One iteration of the loop that routes FinishDestroy to the unreachable objects; an
\* object that is not ready is added to the objects pending destruction.
ConditionalFinishDestroyLoop ==
    /\ Frame.pc = "FinishDestroy"
    /\ GObjCurrentPurgeObjectIndex < Len(GUnreachableObjects)
    /\ LET o == GUnreachableObjects[GObjCurrentPurgeObjectIndex + 1]
           bPollTimeLimit ==
               Frame.TimePollCounter % TimeLimitEnforcementGranularityForDestroy = 0
           count == IF IsReadyForFinishDestroy[o] THEN GGCObjectsPendingDestructionCount
                    ELSE GGCObjectsPendingDestructionCount + 1
       IN /\ IF IsReadyForFinishDestroy[o]
             THEN /\ ConditionalFinishDestroy(o)
                  /\ UNCHANGED GGCObjectsPendingDestruction
             ELSE /\ GGCObjectsPendingDestruction' = Append(GGCObjectsPendingDestruction, o)
                  /\ hist' = [hist EXCEPT !.Deferred = @ \cup {o}]
                  /\ UNCHANGED ObjectFlags
          /\ GGCObjectsPendingDestructionCount' = count
          /\ GObjCurrentPurgeObjectIndex' = GObjCurrentPurgeObjectIndex + 1
          /\ \E expired \in (IF bPollTimeLimit THEN TimeLimitOutcomes(Frame) ELSE {FALSE}) :
                LET f == [Frame EXCEPT !.TimePollCounter = NextPoll(@),
                                       !.bTimeExpired = @ \/ expired,
                                       !.bTimeLimitReached = @ \/ expired]
                IN IF GObjCurrentPurgeObjectIndex' < Len(GUnreachableObjects)
                   THEN \* the first round goes on, or the call returns
                        /\ Frame' = [f EXCEPT !.pc = IF expired
                                                     THEN "IncrementalPurgeGarbageReturn"
                                                     ELSE "FinishDestroy"]
                        /\ UNCHANGED <<GObjFinishDestroyHasBeenRoutedToAllObjects,
                                       GObjCurrentPurgeObjectIndexNeedsReset>>
                   ELSE IF count > 0
                   THEN /\ Frame' = [f EXCEPT !.pc = "FinishDestroyDeferred"]
                        /\ UNCHANGED <<GObjFinishDestroyHasBeenRoutedToAllObjects,
                                       GObjCurrentPurgeObjectIndexNeedsReset>>
                   ELSE FinishDestroyRouted(0, f)
    /\ UNCHANGED <<gcVars, Object, InternalFlags, OwnerIndex, Clusters, Refs, answerVars, unhashVars,
                   asyncVars, dtorVars, GObjPurgeIsRequired, GObjIncrementalPurgeIsInProgress>>
    /\ UNCHANGED extVars

\* The removal of the object at index cur, were the list left as it is and only the
\* count decremented.
KeepPendingObjects(pending, cur, count) == pending

\* "Swap the last index into the current index": the removal of the object at index
\* cur (from 0) of the count objects pending destruction.
SwapWithLast(pending, cur, count) == [pending EXCEPT ![cur + 1] = pending[count]]

PassAgainWithTimeLimit(bUseTimeLimit, count) == count > 0

\* The end of a pass over the objects pending destruction: "if( bUseTimeLimit ) break;",
\* else the loop goes round while objects are pending.
PassAgain(bUseTimeLimit, count) == ~bUseTimeLimit /\ count > 0

\* One iteration of the inner loop over the objects pending destruction, with the end
\* of the pass: a time-limited call leaves after one pass, a call without a time limit
\* sleeps and passes again until no object is pending.
ConditionalFinishDestroyDeferred ==
    /\ Frame.pc = "FinishDestroyDeferred"
    /\ Frame.CurPendingObjIndex < GGCObjectsPendingDestructionCount
    /\ LET cur == Frame.CurPendingObjIndex
           o == GGCObjectsPendingDestruction[cur + 1]
           bReady == IsReadyForFinishDestroy[o]
           bPollTimeLimit ==
               Frame.TimePollCounter % TimeLimitEnforcementGranularityForDestroy = 0
           count == IF bReady THEN GGCObjectsPendingDestructionCount - 1
                    ELSE GGCObjectsPendingDestructionCount
           next == IF bReady THEN cur ELSE cur + 1
           swapped == SwapWithLast(GGCObjectsPendingDestruction, cur,
                                   GGCObjectsPendingDestructionCount)
       IN /\ IF bReady
             THEN ConditionalFinishDestroy(o)
             ELSE UNCHANGED <<ObjectFlags, hist>>
          /\ GGCObjectsPendingDestructionCount' = count
          /\ \E expired \in (IF bPollTimeLimit THEN TimeLimitOutcomes(Frame) ELSE {FALSE}) :
                LET f == [Frame EXCEPT !.TimePollCounter = NextPoll(@),
                                       !.bTimeExpired = @ \/ expired,
                                       !.bTimeLimitReached = @ \/ expired,
                                       !.CurPendingObjIndex = next]
                    bPassOver == expired \/ next >= count
                IN IF ~bPassOver
                   THEN /\ Frame' = f
                        /\ GGCObjectsPendingDestruction' =
                               IF bReady THEN swapped ELSE GGCObjectsPendingDestruction
                        /\ UNCHANGED <<GObjFinishDestroyHasBeenRoutedToAllObjects,
                                       GObjCurrentPurgeObjectIndexNeedsReset>>
                   ELSE IF PassAgain(Frame.bUseTimeLimit, count)
                   THEN \* FPlatformProcess::Sleep(0), then the next pass
                        /\ Frame' = [f EXCEPT !.CurPendingObjIndex = 0]
                        /\ GGCObjectsPendingDestruction' =
                               IF bReady THEN swapped ELSE GGCObjectsPendingDestruction
                        /\ UNCHANGED <<GObjFinishDestroyHasBeenRoutedToAllObjects,
                                       GObjCurrentPurgeObjectIndexNeedsReset>>
                   ELSE /\ FinishDestroyRouted(count, f)
                        /\ GGCObjectsPendingDestruction' =
                               IF count = 0 THEN <<>>
                               ELSE IF bReady THEN swapped ELSE GGCObjectsPendingDestruction
    /\ UNCHANGED <<gcVars, Object, InternalFlags, OwnerIndex, Clusters, Refs, answerVars, unhashVars,
                   asyncVars, dtorVars, GObjPurgeIsRequired, GObjIncrementalPurgeIsInProgress,
                   GObjCurrentPurgeObjectIndex>>
    /\ UNCHANGED extVars

BeginPurgeWithoutTrigger(ap) ==
    [ap EXCEPT !.FinishedPurgeEvent = FALSE, !.ObjCurrentPurgeObjectIndex = 0,
               !.NumObjectsToDestroyOnGameThread = 0, !.NumObjectsDestroyedOnGameThread = 0,
               !.ObjCurrentPurgeObjectIndexOnGameThread = 0]

BeginPurgePastTheFirst(ap) ==
    [ap EXCEPT !.FinishedPurgeEvent = FALSE, !.ObjCurrentPurgeObjectIndex = 0,
               !.NumObjectsToDestroyOnGameThread = 0, !.NumObjectsDestroyedOnGameThread = 0,
               !.ObjCurrentPurgeObjectIndexOnGameThread = 1, !.BeginPurgeEvent = TRUE]

\* FAsyncPurge::BeginPurge
BeginPurge(ap) ==
    [ap EXCEPT !.FinishedPurgeEvent = FALSE, !.ObjCurrentPurgeObjectIndex = 0,
               !.NumObjectsToDestroyOnGameThread = 0, !.NumObjectsDestroyedOnGameThread = 0,
               !.ObjCurrentPurgeObjectIndexOnGameThread = 0, !.BeginPurgeEvent = TRUE]

\* The deletion section of IncrementalDestroyGarbage up to the first loop of
\* FAsyncPurge::TickPurge: BeginPurge when the index needs a reset (it waits for the
\* finished event), then the single-threaded tick or the game-thread objects.
DestroyObjects ==
    /\ Frame.pc = "DestroyObjects"
    /\ GObjCurrentPurgeObjectIndexNeedsReset => GAsyncPurge.FinishedPurgeEvent
    /\ LET begun == IF GObjCurrentPurgeObjectIndexNeedsReset THEN BeginPurge(GAsyncPurge)
                    ELSE GAsyncPurge
       IN /\ GAsyncPurge' =
                 IF begun.Thread THEN begun
                 ELSE [begun EXCEPT !.LastUnreachableObjectsCount = Len(GUnreachableObjects)]
          /\ Frame' = [Frame EXCEPT
                         !.pc = IF begun.Thread \/ begun.ObjCurrentPurgeObjectIndex
                                                      >= Len(GUnreachableObjects)
                                THEN "TickDestroyGameThreadObjects"
                                ELSE "TickDestroyObjects",
                                    !.ProcessedObjectsCount = 0,
                                    !.bFinishedDestroyingObjects = TRUE]
    /\ GObjCurrentPurgeObjectIndexNeedsReset' = FALSE
    /\ UNCHANGED <<gcVars, heapVars, answerVars, unhashVars, dtorVars, hist, InternalArrayLock,
                   PurgeThread, GObjPurgeIsRequired, GObjIncrementalPurgeIsInProgress,
                   GObjFinishDestroyHasBeenRoutedToAllObjects, GObjCurrentPurgeObjectIndex,
                   GGCObjectsPendingDestruction, GGCObjectsPendingDestructionCount>>
    /\ UNCHANGED extVars

\* One iteration of FAsyncPurge::TickDestroyObjects<false>, on the game thread.
TickDestroyObjects ==
    /\ Frame.pc = "TickDestroyObjects"
    /\ GAsyncPurge.ObjCurrentPurgeObjectIndex < Len(GUnreachableObjects)
    /\ InternalArrayLock = "None"
    /\ LET index == GAsyncPurge.ObjCurrentPurgeObjectIndex
           o == GUnreachableObjects[index + 1]
           processed == Frame.ProcessedObjectsCount + 1
           bSlice == /\ Frame.bUseTimeLimit
                     /\ processed = TimeLimitEnforcementGranularityForDeletion
                     /\ index + 1 < Len(GUnreachableObjects)
       IN /\ DestroyObject(o, "Game")
          /\ GUnreachableObjects' = [GUnreachableObjects EXCEPT ![index + 1] = 0]
          /\ GAsyncPurge' = [GAsyncPurge EXCEPT !.ObjCurrentPurgeObjectIndex = index + 1]
          /\ \E expired \in (IF bSlice THEN TimeLimitOutcomes(Frame) ELSE {FALSE}) :
                Frame' = [Frame EXCEPT
                            !.ProcessedObjectsCount = IF bSlice THEN 0 ELSE processed,
                            !.bTimeExpired = @ \/ expired,
                            !.bFinishedDestroyingObjects = ~expired,
                            !.pc = IF expired THEN "AfterTickPurge"
                                   ELSE IF index + 1 < Len(GUnreachableObjects)
                                   THEN "TickDestroyObjects"
                                   ELSE "TickDestroyGameThreadObjects"]
    /\ UNCHANGED <<gcVars, ObjectFlags, OwnerIndex, Clusters, Refs, answerVars, GUnrechableObjectIndex,
                   purgeVars, InternalArrayLock, PurgeThread, hist>>
    /\ UNCHANGED extVars

\* The entry of FAsyncPurge::TickDestroyGameThreadObjects: the lock for the entire
\* batch and the cached number of objects to destroy.
LockForGameThreadObjects ==
    /\ Frame.pc = "TickDestroyGameThreadObjects"
    /\ InternalArrayLock = "None"
    /\ InternalArrayLock' = "Game"
    /\ Frame' = [Frame EXCEPT
                   !.pc = "GameThreadObjects", !.ProcessedObjectsCount = 0,
                   !.bFinishedDestroyingObjects = TRUE,
                   !.LocalNumObjectsToDestroyOnGameThread =
                       GAsyncPurge.NumObjectsToDestroyOnGameThread]
    /\ UNCHANGED <<gcVars, heapVars, answerVars, unhashVars, purgeVars, GAsyncPurge, PurgeThread,
                   dtorVars, hist>>
    /\ UNCHANGED extVars

MoreGameThreadObjectsWithoutCount ==
    GAsyncPurge.ObjCurrentPurgeObjectIndexOnGameThread < Len(GUnreachableObjects)

\* The loop condition of TickDestroyGameThreadObjects
MoreGameThreadObjects ==
    /\ GAsyncPurge.NumObjectsDestroyedOnGameThread
           < Frame.LocalNumObjectsToDestroyOnGameThread
    /\ GAsyncPurge.ObjCurrentPurgeObjectIndexOnGameThread < Len(GUnreachableObjects)

\* One iteration of the loop of TickDestroyGameThreadObjects: a slot that is not
\* null is an object the purge thread left to the game thread.
TickDestroyGameThreadObjects ==
    /\ Frame.pc = "GameThreadObjects"
    /\ MoreGameThreadObjects
    /\ LET index == GAsyncPurge.ObjCurrentPurgeObjectIndexOnGameThread
           o == GUnreachableObjects[index + 1]
           processed == Frame.ProcessedObjectsCount + 1
           destroyed == GAsyncPurge.NumObjectsDestroyedOnGameThread + 1
           bSlice == /\ Frame.bUseTimeLimit
                     /\ processed = TimeLimitEnforcementGranularityForDeletion
                     /\ destroyed < Frame.LocalNumObjectsToDestroyOnGameThread
       IN IF o # 0
          THEN /\ GUnreachableObjects' = [GUnreachableObjects EXCEPT ![index + 1] = 0]
               /\ DestroyObject(o, "Game")
               /\ \E expired \in (IF bSlice THEN TimeLimitOutcomes(Frame) ELSE {FALSE}) :
                    /\ Frame' = [Frame EXCEPT
                                   !.ProcessedObjectsCount = IF bSlice THEN 0 ELSE processed,
                                   !.bTimeExpired = @ \/ expired,
                                   !.bFinishedDestroyingObjects = ~expired,
                                   !.pc = IF expired THEN "TickPurge" ELSE "GameThreadObjects"]
                    /\ GAsyncPurge' = [GAsyncPurge EXCEPT
                                         !.NumObjectsDestroyedOnGameThread = destroyed,
                                         !.ObjCurrentPurgeObjectIndexOnGameThread =
                                             IF expired THEN index ELSE index + 1]
          ELSE /\ GAsyncPurge' = [GAsyncPurge EXCEPT
                                    !.ObjCurrentPurgeObjectIndexOnGameThread = index + 1]
               /\ UNCHANGED <<GUnreachableObjects, Object, InternalFlags, dtorVars, Frame>>
    /\ UNCHANGED <<gcVars, ObjectFlags, OwnerIndex, Clusters, Refs, answerVars, GUnrechableObjectIndex,
                   purgeVars, InternalArrayLock, PurgeThread, hist>>
    /\ UNCHANGED extVars

\* The end of TickDestroyGameThreadObjects and the loop of FAsyncPurge::TickPurge:
\* the unlock, the finished event of the single-threaded purge, and another round
\* when the call has no time limit and the purge is not finished.
TickPurge ==
    /\ IF Frame.pc = "GameThreadObjects" THEN ~MoreGameThreadObjects
       ELSE Frame.pc = "TickPurge"
    /\ InternalArrayLock' = "None"
    /\ LET ap == IF ~GAsyncPurge.Thread /\ Frame.bFinishedDestroyingObjects
                 THEN [GAsyncPurge EXCEPT !.FinishedPurgeEvent = TRUE]
                 ELSE GAsyncPurge
       IN /\ GAsyncPurge' = ap
          /\ Frame' = [Frame EXCEPT !.pc = IF ~Frame.bUseTimeLimit /\ ~IsFinished(ap)
                                           THEN "TickDestroyGameThreadObjects"
                                           ELSE "AfterTickPurge"]
    /\ UNCHANGED <<gcVars, heapVars, answerVars, unhashVars, purgeVars, PurgeThread, dtorVars, hist>>
    /\ UNCHANGED extVars

\* The end of IncrementalDestroyGarbage: when the purge is finished the purge
\* variables are reset.
FinishIncrementalDestroyGarbage ==
    /\ Frame.pc = "AfterTickPurge"
    /\ LET bCompleted == IsFinished(GAsyncPurge)
       IN /\ Frame' = [Frame EXCEPT !.pc = "IncrementalPurgeGarbageReturn",
                                    !.bCompleted = bCompleted]
          /\ GObjFinishDestroyHasBeenRoutedToAllObjects' =
                 IF bCompleted THEN FALSE ELSE GObjFinishDestroyHasBeenRoutedToAllObjects
          /\ GObjPurgeIsRequired' = IF bCompleted THEN FALSE ELSE GObjPurgeIsRequired
          /\ GObjCurrentPurgeObjectIndexNeedsReset' =
                 IF bCompleted THEN TRUE ELSE GObjCurrentPurgeObjectIndexNeedsReset
    /\ UNCHANGED <<gcVars, heapVars, answerVars, unhashVars, asyncVars, dtorVars, hist,
                   GObjIncrementalPurgeIsInProgress, GObjCurrentPurgeObjectIndex,
                   GGCObjectsPendingDestruction, GGCObjectsPendingDestructionCount>>
    /\ UNCHANGED extVars

\* --------------------------------------- the purge: the async purge thread
\* FAsyncPurge::Run: the thread wakes on the begin event and enters
\* TickDestroyObjects<true>.
Run ==
    /\ GAsyncPurge.Thread
    /\ PurgeThread.pc = "Wait"
    /\ GAsyncPurge.BeginPurgeEvent
    /\ GAsyncPurge' = [GAsyncPurge EXCEPT !.BeginPurgeEvent = FALSE]
    /\ PurgeThread' = [pc |-> "TickDestroyObjects",
                       LocalNumObjectsToDestroyOnGameThread |->
                           GAsyncPurge.NumObjectsToDestroyOnGameThread]
    /\ UNCHANGED <<gcVars, heapVars, answerVars, unhashVars, purgeVars, InternalArrayLock, dtorVars,
                   Frame, hist>>
    /\ UNCHANGED extVars

\* One iteration of TickDestroyObjects<true> up to the destructor or the store: an
\* object whose destruction is thread safe is destructed under the array lock, any
\* other is left to the game thread by publishing the new count.
TickDestroyObjectsOnPurgeThread ==
    /\ PurgeThread.pc = "TickDestroyObjects"
    /\ GAsyncPurge.ObjCurrentPurgeObjectIndex < Len(GUnreachableObjects)
    /\ LET o == GUnreachableObjects[GAsyncPurge.ObjCurrentPurgeObjectIndex + 1]
       IN IF o # 0 /\ IsDestructionThreadSafe[o]
          THEN /\ InternalArrayLock = "None"
               /\ DestroyObject(o, "Purge")
               /\ PurgeThread' = [PurgeThread EXCEPT !.pc = "Destructed"]
               /\ UNCHANGED GAsyncPurge
          ELSE /\ GAsyncPurge' = [GAsyncPurge EXCEPT !.NumObjectsToDestroyOnGameThread =
                                     PurgeThread.LocalNumObjectsToDestroyOnGameThread + 1]
               /\ PurgeThread' = [PurgeThread EXCEPT
                                     !.pc = "Stored",
                                     !.LocalNumObjectsToDestroyOnGameThread = @ + 1]
               /\ UNCHANGED <<Object, InternalFlags, dtorVars>>
    /\ UNCHANGED <<gcVars, ObjectFlags, OwnerIndex, Clusters, Refs, answerVars, unhashVars, purgeVars,
                   InternalArrayLock, Frame, hist>>
    /\ UNCHANGED extVars

\* The rest of the iteration: the slot of a destructed object is set to null, and
\* the index moves on.
AdvanceOnPurgeThread ==
    /\ PurgeThread.pc \in {"Destructed", "Stored"}
    /\ LET index == GAsyncPurge.ObjCurrentPurgeObjectIndex
       IN /\ GUnreachableObjects' =
                 IF PurgeThread.pc = "Destructed"
                 THEN [GUnreachableObjects EXCEPT ![index + 1] = 0]
                 ELSE GUnreachableObjects
          /\ GAsyncPurge' = [GAsyncPurge EXCEPT !.ObjCurrentPurgeObjectIndex = index + 1]
    /\ PurgeThread' = [PurgeThread EXCEPT !.pc = "TickDestroyObjects"]
    /\ UNCHANGED <<gcVars, heapVars, answerVars, GUnrechableObjectIndex, purgeVars, InternalArrayLock,
                   dtorVars, Frame, hist>>
    /\ UNCHANGED extVars

\* The end of TickDestroyObjects<true>: Run triggers the finished event.
TriggerFinishedPurgeEvent ==
    /\ PurgeThread.pc = "TickDestroyObjects"
    /\ GAsyncPurge.ObjCurrentPurgeObjectIndex >= Len(GUnreachableObjects)
    /\ GAsyncPurge' = [GAsyncPurge EXCEPT !.FinishedPurgeEvent = TRUE]
    /\ PurgeThread' = [PurgeThread EXCEPT !.pc = "Wait"]
    /\ UNCHANGED <<gcVars, heapVars, answerVars, unhashVars, purgeVars, InternalArrayLock, dtorVars,
                   Frame, hist>>
    /\ UNCHANGED extVars

\* The asynchronous cleanup that BeginDestroy started on an object ends (a render
\* fence is released): the object reports ready for FinishDestroy.
BecomeReadyForFinishDestroy ==
    /\ \E o \in Obj :
          /\ "RF_BeginDestroyed" \in ObjectFlags[o]
          /\ ~IsReadyForFinishDestroy[o]
          /\ IsReadyForFinishDestroy' = [IsReadyForFinishDestroy EXCEPT ![o] = TRUE]
    /\ UNCHANGED <<gcVars, heapVars, IsDestructionThreadSafe, unhashVars, purgeVars, asyncVars,
                   dtorVars, Frame, hist>>
    /\ UNCHANGED extVars

\* ------------------------------------------- the cycle: CollectGarbage
CollectGarbageWithoutLock ==
    /\ Frame.pc = "Idle"
    /\ ~GCLock
    /\ hist.Cycle < MaxCycles
    /\ \E bPerformFullPurge \in BOOLEAN :
          Frame' = [IdleFrame EXCEPT !.pc = "CollectGarbage",
                                     !.bPerformFullPurge = bPerformFullPurge]
    /\ hist' = [hist EXCEPT !.Cycle = @ + 1, !.Subscribers = 0,
                            !.PurgeAtStart = IsIncrementalPurgePending]
    /\ UNCHANGED <<heapVars, answerVars, unhashVars, purgeVars, asyncVars, dtorVars, gcVars>>
    /\ UNCHANGED extVars

\* CollectGarbage(KeepFlags, bPerformFullPurge) with the GC lock free: the lock is
\* taken. KeepFlags is the same in every call.
CollectGarbage ==
    /\ Frame.pc = "Idle"
    /\ ~GCLock
    /\ hist.Cycle < MaxCycles
    /\ GCLock' = TRUE
    /\ \E bPerformFullPurge \in BOOLEAN :
          Frame' = [IdleFrame EXCEPT !.pc = "CollectGarbage",
                                     !.bPerformFullPurge = bPerformFullPurge]
    /\ hist' = [hist EXCEPT !.Cycle = @ + 1, !.Subscribers = 0,
                            !.PurgeAtStart = IsIncrementalPurgePending]
    /\ UNCHANGED <<heapVars, answerVars, unhashVars, purgeVars, asyncVars, dtorVars,
                   NumWorkerThreads, InitialObjects, Workers, Coordinator>>
    /\ UNCHANGED extVars

NoPreviousPurge == FALSE

\* The purge of the previous cycle has not finished, or has not started.
PreviousPurgePending == GObjIncrementalPurgeIsInProgress \/ GObjPurgeIsRequired

\* CollectGarbageImpl makes sure the previous purge has finished.
FinishPreviousPurge ==
    /\ Frame.pc = "CollectGarbage"
    /\ IF PreviousPurgePending
       THEN CallIncrementalPurgeGarbage(FALSE, "PerformReachabilityAnalysis")
       ELSE /\ Frame' = [Frame EXCEPT !.pc = "PerformReachabilityAnalysis"]
            /\ UNCHANGED <<GObjIncrementalPurgeIsInProgress, hist>>
    /\ UNCHANGED <<gcVars, heapVars, answerVars, unhashVars, asyncVars, dtorVars,
                   GObjPurgeIsRequired, GObjFinishDestroyHasBeenRoutedToAllObjects,
                   GObjCurrentPurgeObjectIndex, GObjCurrentPurgeObjectIndexNeedsReset,
                   GGCObjectsPendingDestruction, GGCObjectsPendingDestructionCount>>
    /\ UNCHANGED extVars

\* The objects that carry one of the KeepFlags of the call.
KeptByFlags == {o \in Obj : "KeepFlags" \in ObjectFlags[o]}

\* FRealtimeGC::PerformReachabilityAnalysis up to the mark: the initial objects.
PerformReachabilityAnalysis ==
    /\ Frame.pc = "PerformReachabilityAnalysis"
    /\ LET live == {o \in Obj : Object[o]}
           s == MarkObjectsAsUnreachable(HeapState, NumWorkerThreads, live, KeptByFlags)
       IN /\ InternalFlags' = s.Flags
          /\ OwnerIndex' = s.Owner
          /\ Clusters' = s.Clusters
          /\ InitialObjects' = s.Out
          /\ hist' = [hist EXCEPT
                        !.Start = [Object |-> Object, Flags |-> InternalFlags,
                                   Owner |-> OwnerIndex, Refs |-> Refs,
                                   Kept |-> KeptByFlags, Clusters |-> Clusters],
                        !.Traced = {}, !.WeakRecorded = {}, !.KeptMembers = {},
                        !.Dissolved = s.Dissolved, !.Added = [o \in Obj |-> 0],
                        !.Claimed = [w \in WorkerIds |-> 0], !.Premature = FALSE]
    /\ Frame' = [Frame EXCEPT !.pc = "ProcessAsync"]
    /\ UNCHANGED <<Object, ObjectFlags, Refs, answerVars, unhashVars, purgeVars, asyncVars,
                   dtorVars, GCLock, NumWorkerThreads, Workers, Coordinator>>
    /\ UNCHANGED extVars

\* The number of workers of ProcessAsync.
NumWorkers == Min(IF NumWorkerThreads < 1 THEN 1 ELSE NumWorkerThreads, MaxWorkers)

\* TArrayView::Mid(Index, Count) of a sequence.
Mid(seq, Index, Count) ==
    SubSeq(seq, Min(Index, Len(seq)) + 1, Min(Index + Count, Len(seq)))

\* ProcessAsync up to the launch of the tasks: the contexts, each with its share of
\* the initial objects, and the coordinator.
ProcessAsync ==
    /\ Frame.pc = "ProcessAsync"
    /\ LET ObjPerWorker == (Len(InitialObjects) + NumWorkers - 1) \div NumWorkers
       IN Workers' = [w \in WorkerIds |->
                        IF w < NumWorkers
                        THEN [IdleWorker EXCEPT
                                !.pc = "Unstarted",
                                !.Initial = Mid(InitialObjects, w * ObjPerWorker, ObjPerWorker),
                                !.Weak = Workers[w].Weak]
                        ELSE Workers[w]]
    /\ Coordinator' = [Contexts |-> 0..(NumWorkers - 1), Num |-> NumWorkers,
                       NumUsedContexts |-> 0, NumWorkless |-> 0,
                       NumStopDirectly |-> IF NumWorkerThreads > MaxWorkers THEN 0
                                           ELSE 1 + (IF NumWorkers > 5 THEN 1 ELSE 0),
                       NumStopped |-> 0]
    /\ Frame' = [Frame EXCEPT !.pc = "Reachability"]
    /\ UNCHANGED <<heapVars, answerVars, unhashVars, purgeVars, asyncVars, dtorVars,
                   GCLock, NumWorkerThreads, InitialObjects, hist>>
    /\ UNCHANGED extVars

\* ------------------------------------------ the cycle: the workers
\* FWorkBlockifier::Add: the object joins the block being filled; a full block
\* joins the queue, where other workers can take it.
Add(wk, o) ==
    IF Len(wk.Wip) + 1 >= BlockCapacity
    THEN [wk EXCEPT !.Queue = Append(@, Append(wk.Wip, o)), !.Wip = <<>>]
    ELSE [wk EXCEPT !.Wip = Append(@, o)]

RECURSIVE AddAll(_, _)
AddAll(wk, objs) == IF objs = <<>> THEN wk ELSE AddAll(Add(wk, Head(objs)), Tail(objs))

\* The slots of object o, in the order the schema of its class lists them.
SlotsIn(refs, o) == SelectSeq([i \in 1..Len(refs) |-> i], LAMBDA i : refs[i].owner = o)

SlotsOf(o) == SlotsIn(Refs, o)

\* The block a worker with no object in hand turns to: the block it is visiting,
\* else the last full block of its queue, else the block it is filling.
NextBlock(wk) ==
    IF wk.Current # <<>> THEN wk.Current
    ELSE IF wk.Queue # <<>> THEN wk.Queue[Len(wk.Queue)]
    ELSE wk.Wip

\* The worker once it has taken the first object of that block.
TakeObject(wk) ==
    [wk EXCEPT !.Current = Tail(NextBlock(wk)),
               !.Queue = IF wk.Current = <<>> /\ wk.Queue # <<>>
                         THEN SubSeq(@, 1, Len(@) - 1) ELSE @,
               !.Wip = IF wk.Current = <<>> /\ wk.Queue = <<>> THEN <<>> ELSE @]

\* What the visit of slot i finds in it. The memory of a destroyed object has been
\* freed: the read of a slot that still points to it finds any object, or none.
SlotTargets(i) ==
    IF Refs[i].target # 0 /\ ~Object[Refs[i].target] /\ Refs[i].kind # "Weak"
    THEN {o \in Obj : Object[o]} \cup {0}
    ELSE {Refs[i].target}

\* FWorkCoordinator::TryStartWorking, were it to count a context it does not get.
ExchangeContextAndCount(w) ==
    [Coordinator EXCEPT !.Contexts = @ \ {w}, !.NumUsedContexts = @ + 1]

\* FWorkCoordinator::TryStartWorking: the exchange of the context of worker w for
\* nullptr, and the count of a context it got.
ExchangeContext(w) ==
    IF w \in Coordinator.Contexts
    THEN [Coordinator EXCEPT !.Contexts = @ \ {w}, !.NumUsedContexts = @ + 1]
    ELSE Coordinator

\* FWorkCoordinator::TryStartWorking(w), by the game thread for worker 0 and by the
\* task of worker w: the worker takes its context and works, unless another worker
\* has taken it; then the task ends.
TryStartWorking(w) ==
    /\ Frame.pc = "Reachability"
    /\ Workers[w].pc \in {"Unstarted", "NoContext"}
    /\ Coordinator' = ExchangeContext(w)
    /\ IF w \in Coordinator.Contexts
       THEN /\ Workers' = [Workers EXCEPT ![w].pc = "Working",
                                          ![w].Current = Workers[w].Initial,
                                          ![w].Initial = <<>>]
            /\ hist' = [hist EXCEPT !.Claimed[w] = Min(2, @ + 1)]
       ELSE UNCHANGED <<Workers, hist>>
    /\ UNCHANGED <<heapVars, answerVars, unhashVars, purgeVars, asyncVars, dtorVars,
                   GCLock, NumWorkerThreads, InitialObjects, Frame>>
    /\ UNCHANGED extVars

\* The worker takes the next object to visit: of the block it is visiting, else of
\* the last full block of its queue, else of the block it is filling.
NextObject(w) ==
    /\ Frame.pc = "Reachability"
    /\ Workers[w].pc = "Working"
    /\ Workers[w].Slots = <<>>
    /\ NextBlock(Workers[w]) # <<>>
    /\ Workers' = [Workers EXCEPT
          ![w] = [TakeObject(@) EXCEPT !.Slots = SlotsOf(Head(NextBlock(Workers[w])))]]
    /\ hist' = [hist EXCEPT !.Traced = @ \cup {Head(NextBlock(Workers[w]))}]
    /\ UNCHANGED <<heapVars, answerVars, unhashVars, purgeVars, asyncVars, dtorVars,
                   GCLock, NumWorkerThreads, InitialObjects, Coordinator, Frame>>
    /\ UNCHANGED extVars

\* The worker visits the next slot of the object it is visiting. The flags change
\* by atomic operations that only clear Unreachable or set ReachableInCluster, and
\* the lists of a cluster are written by the one thread that cleared Unreachable on
\* its root: the visit of a slot is one step.
VisitSlot(w) ==
    /\ Frame.pc = "Reachability"
    /\ Workers[w].pc = "Working"
    /\ Workers[w].Slots # <<>>
    /\ LET i == Head(Workers[w].Slots)
       IN \E t \in SlotTargets(i) :
            LET s == ProcessReference(HeapState, i, t)
            IN /\ InternalFlags' = s.Flags
               /\ Clusters' = s.Clusters
               /\ Refs' = s.Refs
               /\ Workers' = [Workers EXCEPT
                     ![w] = AddAll([@ EXCEPT !.Slots = Tail(@), !.Weak = @ \cup s.Weak],
                                   s.Out)]
               /\ hist' = [hist EXCEPT
                     !.WeakRecorded = @ \cup s.Weak,
                     !.Added = [o \in Obj |-> Min(2, @[o] + Times(s.Out, o))]]
    /\ UNCHANGED <<Object, ObjectFlags, OwnerIndex, answerVars, unhashVars, purgeVars,
                   asyncVars, dtorVars, GCLock, NumWorkerThreads, InitialObjects, Coordinator,
                   Frame>>
    /\ UNCHANGED extVars

HasNoWork(wk) == wk.Slots = <<>> /\ wk.Current = <<>> /\ wk.Queue = <<>> /\ wk.Wip = <<>>

\* The workers with a full block in their queue.
Stealable(w) == {v \in WorkerIds : v # w /\ Workers[v].Queue # <<>>}

NoInitialObjects(c) == <<>>

\* The initial objects of a stolen context, which the thief makes its own.
StolenInitialObjects(c) == Workers[c].Initial

\* FWorkCoordinator::StealContext, were it not to count the worker of the stolen
\* context as stopped.
StealContextNotStopped(c) ==
    [Coordinator EXCEPT !.Contexts = @ \ {c}, !.NumUsedContexts = @ + 1,
                        !.NumWorkless = @ + 1, !.NumStopDirectly = @ - 1]

\* FWorkCoordinator::StealContext once it has found context c: the worker of c will
\* never work, and counts as workless and stopped from now on.
StealContext(c) ==
    [Coordinator EXCEPT !.Contexts = @ \ {c}, !.NumUsedContexts = @ + 1,
                        !.NumWorkless = @ + 1, !.NumStopped = @ + 1,
                        !.NumStopDirectly = @ - 1]

\* StealWork up to its loop: a full block of another worker, else the context of a
\* worker that has not started (FWorkCoordinator::StealContext), else
\* FWorkCoordinator::ReportOutOfWork.
StealWork(w) ==
    /\ Frame.pc = "Reachability"
    /\ Workers[w].pc = "Working"
    /\ HasNoWork(Workers[w])
    /\ IF Stealable(w) # {}
       THEN /\ \E v \in Stealable(w) :
                 Workers' = [Workers EXCEPT ![w].Current = Head(Workers[v].Queue),
                                            ![v].Queue = Tail(@)]
            /\ UNCHANGED Coordinator
       ELSE IF Coordinator.NumUsedContexts < Coordinator.Num /\ Coordinator.Contexts # {}
       THEN LET c == SetMin(Coordinator.Contexts)
            IN /\ Coordinator' = StealContext(c)
               /\ Workers' = [Workers EXCEPT ![w].Current = StolenInitialObjects(c),
                                             ![c].Initial = <<>>, ![c].pc = "NoContext"]
       ELSE IF w = 0 \/ Coordinator.NumStopDirectly - 1 < 0
       THEN /\ Coordinator' = [Coordinator EXCEPT
                  !.NumWorkless = @ + 1,
                  !.NumStopDirectly = IF w = 0 THEN @ ELSE @ - 1]
            /\ Workers' = [Workers EXCEPT ![w].pc = "Spinning"]
       ELSE /\ Coordinator' = [Coordinator EXCEPT
                  !.NumWorkless = @ + 1, !.NumStopDirectly = @ - 1,
                  !.NumStopped = @ + 1]
            /\ Workers' = [Workers EXCEPT ![w].pc = "Stopped"]
    /\ hist' = IF Stealable(w) = {} /\ Coordinator'.Contexts # Coordinator.Contexts
               THEN [hist EXCEPT !.Claimed[SetMin(Coordinator.Contexts)] = Min(2, @ + 1)]
               ELSE hist
    /\ UNCHANGED <<heapVars, answerVars, unhashVars, purgeVars, asyncVars, dtorVars,
                   GCLock, NumWorkerThreads, InitialObjects, Frame>>
    /\ UNCHANGED extVars

\* The workers that have taken a block in the loop of StealWork and have yet to
\* report back to work: the coordinator still counts them as workless.
LateThieves == {v \in WorkerIds : Workers[v].pc = "BackToWork"}

\* FWorkCoordinator::KeepSpinning, at the head of the loop of StealWork.
KeepSpinning(w) ==
    /\ Frame.pc = "Reachability"
    /\ Workers[w].pc = "Spinning"
    /\ IF Coordinator.NumWorkless < Coordinator.Num
       THEN /\ Workers' = [Workers EXCEPT ![w].pc = "Yield"]
            /\ UNCHANGED Coordinator
       ELSE /\ Workers' = [Workers EXCEPT ![w].pc = "Stopped"]
            /\ Coordinator' = [Coordinator EXCEPT !.NumStopped = @ + 1]
    /\ hist' = [hist EXCEPT !.Premature = @ \/ (Coordinator.NumWorkless >= Coordinator.Num
                                                 /\ LateThieves # {})]
    /\ UNCHANGED <<heapVars, answerVars, unhashVars, purgeVars, asyncVars, dtorVars,
                   GCLock, NumWorkerThreads, InitialObjects, Frame>>
    /\ UNCHANGED extVars

\* StealFullBlock in the loop of StealWork.
StealFullBlock(w) ==
    /\ Frame.pc = "Reachability"
    /\ Workers[w].pc = "Yield"
    /\ IF Stealable(w) # {}
       THEN \E v \in Stealable(w) :
               Workers' = [Workers EXCEPT ![w].Loot = Head(Workers[v].Queue),
                                          ![w].pc = "BackToWork", ![v].Queue = Tail(@)]
       ELSE Workers' = [Workers EXCEPT ![w].pc = "Spinning"]
    /\ UNCHANGED <<heapVars, answerVars, unhashVars, purgeVars, asyncVars, dtorVars,
                   GCLock, NumWorkerThreads, InitialObjects, Coordinator, Frame, hist>>
    /\ UNCHANGED extVars

\* FWorkCoordinator::ReportBackToWork by a worker that leaves its block behind.
ReportBackToWorkWithoutLoot(w) ==
    /\ Frame.pc = "Reachability"
    /\ Workers[w].pc = "BackToWork"
    /\ Coordinator' = [Coordinator EXCEPT !.NumWorkless = @ - 1]
    /\ Workers' = [Workers EXCEPT ![w].pc = "Working", ![w].Loot = <<>>]
    /\ UNCHANGED <<heapVars, answerVars, unhashVars, purgeVars, asyncVars, dtorVars,
                   GCLock, NumWorkerThreads, InitialObjects, Frame, hist>>
    /\ UNCHANGED extVars

\* FWorkCoordinator::ReportBackToWork, with the block taken in the loop.
ReportBackToWork(w) ==
    /\ Frame.pc = "Reachability"
    /\ Workers[w].pc = "BackToWork"
    /\ Coordinator' = [Coordinator EXCEPT !.NumWorkless = @ - 1]
    /\ Workers' = [Workers EXCEPT ![w].pc = "Working", ![w].Current = Workers[w].Loot,
                                  ![w].Loot = <<>>]
    /\ UNCHANGED <<heapVars, answerVars, unhashVars, purgeVars, asyncVars, dtorVars,
                   GCLock, NumWorkerThreads, InitialObjects, Frame, hist>>
    /\ UNCHANGED extVars

\* ------------------------------- the cycle: after the reachability
\* FWorkCoordinator::SpinUntilAllStopped and the rest of ProcessAsync, once the game
\* thread has no work of its own: the reachability analysis is over.
NoneStopped == TRUE

\* The test of the loop of FWorkCoordinator::SpinUntilAllStopped, were it to fail
\* one worker early.
AllButOneStopped == Coordinator.NumStopped >= Coordinator.Num - 1

\* The test of the loop of FWorkCoordinator::SpinUntilAllStopped fails.
AllStopped == Coordinator.NumStopped >= Coordinator.Num

SpinUntilAllStopped ==
    /\ Frame.pc = "Reachability"
    /\ Workers[0].pc \in {"Stopped", "NoContext"}
    /\ AllStopped
    /\ Workers' = [w \in WorkerIds |-> [IdleWorker EXCEPT !.Weak = Workers[w].Weak,
                                                          !.Queue = Workers[w].Queue]]
    /\ Frame' = [Frame EXCEPT !.pc = "Reached"]
    /\ hist' = [hist EXCEPT !.KeptMembers =
                   {m \in Obj : OwnerIndex[m] > 0
                                /\ "Unreachable" \notin InternalFlags[OwnerIndex[m]]}]
    /\ UNCHANGED <<heapVars, answerVars, unhashVars, purgeVars, asyncVars, dtorVars,
                   GCLock, NumWorkerThreads, InitialObjects, Coordinator>>
    /\ UNCHANGED extVars

\* CollectGarbageImpl after the reachability analysis: the clusters that need it are
\* dissolved, and the unreachable objects gathered.
GatherUnreachable ==
    /\ Frame.pc = "Reached"
    /\ LET s == GatherUnreachableObjects(DissolveClusters(HeapState),
                                         IF NumWorkerThreads < 1 THEN 1 ELSE NumWorkerThreads)
       IN /\ InternalFlags' = s.Flags
          /\ OwnerIndex' = s.Owner
          /\ Clusters' = s.Clusters
          /\ GUnreachableObjects' = s.Out
          /\ hist' = [hist EXCEPT !.Gathered = Range(s.Out),
                                  !.Dissolved = @ \cup s.Dissolved,
                                  !.List = s.Out, !.Unhashed = <<>>]
    /\ GUnrechableObjectIndex' = 0
    /\ Frame' = [Frame EXCEPT !.pc = "ClearWeakReferences"]
    /\ UNCHANGED <<gcVars, Object, ObjectFlags, Refs, answerVars, purgeVars, asyncVars,
                   dtorVars>>
    /\ UNCHANGED extVars

\* The weak slots the contexts of the pool have recorded.
AllWeakReferences == UNION {Workers[w].Weak : w \in WorkerIds}

\* CollectGarbageImpl clears the weak references of all contexts.
ClearWeak ==
    /\ Frame.pc = "ClearWeakReferences"
    /\ \E D \in SUBSET {i \in AllWeakReferences :
                           Refs[i].target # 0 /\ ~Object[Refs[i].target]} :
          Refs' = ClearWeakReferences(Refs, InternalFlags, AllWeakReferences, D)
    /\ Workers' = [w \in WorkerIds |-> [Workers[w] EXCEPT !.Weak = {}]]
    /\ Frame' = [Frame EXCEPT !.pc = "ReleaseGCLock"]
    /\ UNCHANGED <<Object, InternalFlags, ObjectFlags, OwnerIndex, Clusters, answerVars,
                   unhashVars, purgeVars, asyncVars, dtorVars, GCLock, NumWorkerThreads,
                   InitialObjects, Coordinator, hist>>
    /\ UNCHANGED extVars

ReleaseGCLock ==
    /\ Frame.pc = "ReleaseGCLock"
    /\ GCLock' = FALSE
    /\ Frame' = [Frame EXCEPT !.pc = "PostReachabilityAnalysis"]
    /\ UNCHANGED <<heapVars, answerVars, unhashVars, purgeVars, asyncVars, dtorVars,
                   NumWorkerThreads, InitialObjects, Workers, Coordinator, hist>>
    /\ UNCHANGED extVars

\* The broadcast of PostReachabilityAnalysis, and the call of
\* UnhashUnreachableObjects of a full purge.
PostReachabilityAnalysis ==
    /\ Frame.pc = "PostReachabilityAnalysis"
    /\ hist' = [hist EXCEPT !.Subscribers = Cap(@ + 1)]
    /\ Frame' = IF (Frame.bPerformFullPurge \/ GIncrementalBeginDestroyEnabled = 0)
                   /\ GUnrechableObjectIndex < Len(GUnreachableObjects)
                THEN [Frame EXCEPT !.pc = "Unhash", !.unhashRet = "CollectGarbage",
                                   !.bUseTimeLimit = FALSE, !.TimePollCounter = 0]
                ELSE [Frame EXCEPT !.pc = "PurgeIsRequired"]
    /\ UNCHANGED <<gcVars, heapVars, answerVars, unhashVars, purgeVars, asyncVars,
                   dtorVars>>
    /\ UNCHANGED extVars

\* The return of UnhashUnreachableObjects to CollectGarbageImpl.
ReturnFromUnhashToCollectGarbage ==
    /\ Frame.pc = "UnhashReturn"
    /\ Frame.unhashRet = "CollectGarbage"
    /\ Frame' = [Frame EXCEPT !.pc = "PurgeIsRequired", !.unhashRet = "None",
                              !.TimePollCounter = 0]
    /\ UNCHANGED <<gcVars, heapVars, answerVars, unhashVars, purgeVars, asyncVars,
                   dtorVars, hist>>
    /\ UNCHANGED extVars

\* CollectGarbageImpl relies on a purge from here on.
SetPurgeIsRequired ==
    /\ Frame.pc = "PurgeIsRequired"
    /\ GObjPurgeIsRequired' = TRUE
    /\ Frame' = [Frame EXCEPT !.pc = IF Frame.bPerformFullPurge THEN "FullPurge"
                                     ELSE "PostGarbageCollect"]
    /\ UNCHANGED <<gcVars, heapVars, answerVars, unhashVars, asyncVars, dtorVars, hist,
                   GObjIncrementalPurgeIsInProgress,
                   GObjFinishDestroyHasBeenRoutedToAllObjects, GObjCurrentPurgeObjectIndex,
                   GObjCurrentPurgeObjectIndexNeedsReset, GGCObjectsPendingDestruction,
                   GGCObjectsPendingDestructionCount>>
    /\ UNCHANGED extVars

\* The full purge of CollectGarbageImpl: IncrementalPurgeGarbage without a time limit.
FullPurge ==
    /\ Frame.pc = "FullPurge"
    /\ CallIncrementalPurgeGarbage(FALSE, "PostGarbageCollect")
    /\ UNCHANGED <<gcVars, heapVars, answerVars, unhashVars, asyncVars, dtorVars,
                   GObjPurgeIsRequired, GObjFinishDestroyHasBeenRoutedToAllObjects,
                   GObjCurrentPurgeObjectIndex, GObjCurrentPurgeObjectIndexNeedsReset,
                   GGCObjectsPendingDestruction, GGCObjectsPendingDestructionCount>>
    /\ UNCHANGED extVars

\* The broadcast of PostGarbageCollect: the call returns.
PostGarbageCollect ==
    /\ Frame.pc = "PostGarbageCollect"
    /\ Frame' = IdleFrame
    /\ hist' = [hist EXCEPT !.Subscribers = Cap(@ + 1), !.PrevDissolved = hist.Dissolved]
    /\ UNCHANGED <<gcVars, heapVars, answerVars, unhashVars, purgeVars, asyncVars,
                   dtorVars>>
    /\ UNCHANGED extVars

ReachabilityWorker(w) ==
    \/ TryStartWorking(w)
    \/ NextObject(w)
    \/ VisitSlot(w)
    \/ StealWork(w)
    \/ KeepSpinning(w)
    \/ StealFullBlock(w)
    \/ ReportBackToWork(w)

GarbageCollection ==
    \/ CollectGarbage
    \/ FinishPreviousPurge
    \/ PerformReachabilityAnalysis
    \/ ProcessAsync
    \/ SpinUntilAllStopped
    \/ GatherUnreachable
    \/ ClearWeak
    \/ ReleaseGCLock
    \/ PostReachabilityAnalysis
    \/ ReturnFromUnhashToCollectGarbage
    \/ SetPurgeIsRequired
    \/ FullPurge
    \/ PostGarbageCollect

GameThreadPurge ==
    \/ ReturnFromIncrementalPurgeGarbage
    \/ UnhashUnreachableObjects
    \/ ReturnFromUnhashUnreachableObjects
    \/ IncrementalDestroyGarbage
    \/ ConditionalFinishDestroyLoop
    \/ ConditionalFinishDestroyDeferred
    \/ DestroyObjects
    \/ TickDestroyObjects
    \/ LockForGameThreadObjects
    \/ TickDestroyGameThreadObjects
    \/ TickPurge
    \/ FinishIncrementalDestroyGarbage

AsyncPurgeThread ==
    \/ Run
    \/ TickDestroyObjectsOnPurgeThread
    \/ AdvanceOnPurgeThread
    \/ TriggerFinishedPurgeEvent

NextPurge ==
    \/ IncrementalPurgeGarbage
    \/ GameThreadPurge
    \/ AsyncPurgeThread
    \/ BecomeReadyForFinishDestroy

SpecPurge == InitPurge /\ [][NextPurge]_vars

\* The purge under the scheduling the engine gives it: the game thread runs the call
\* it is in, the engine keeps ticking IncrementalPurgeGarbage, the purge thread runs
\* (it gets the array lock, which the game thread releases at the end of every batch,
\* hence the strong fairness), and the cleanup that BeginDestroy started on an object
\* ends.
SpecPurgeFair ==
    /\ SpecPurge
    /\ WF_vars(IncrementalPurgeGarbage)
    /\ WF_vars(GameThreadPurge)
    /\ SF_vars(AsyncPurgeThread)
    /\ WF_vars(BecomeReadyForFinishDestroy)

\* The purge when only the game thread is scheduled: the purge thread may stand still
\* and the cleanup that BeginDestroy started may never end.
SpecPurgeGameThreadFair == SpecPurge /\ WF_vars(GameThreadPurge)

\* The purge of a cycle, which runs on the game thread alone
\* (gc.MultithreadedDestructionEnabled is 0) on objects that are ready.
GameThreadOnlyPurge ==
    \/ ReturnFromIncrementalPurgeGarbage
    \/ UnhashUnreachableObjects
    \/ ReturnFromUnhashUnreachableObjects
    \/ IncrementalDestroyGarbage
    \/ ConditionalFinishDestroyLoop
    \/ DestroyObjects
    \/ TickDestroyObjects
    \/ LockForGameThreadObjects
    \/ TickPurge
    \/ FinishIncrementalDestroyGarbage

\* The collection cycles: calls of CollectGarbage on the heaps of Init.
Next ==
    \/ GarbageCollection
    \/ \E w \in WorkerIds : ReachabilityWorker(w)
    \/ GameThreadOnlyPurge

Spec == Init /\ [][Next]_vars

\* The steps of a worker that has started.
StartedWorker(w) ==
    \/ NextObject(w)
    \/ VisitSlot(w)
    \/ StealWork(w)
    \/ KeepSpinning(w)
    \/ StealFullBlock(w)
    \/ ReportBackToWork(w)

\* The cycles under the scheduling the engine gives the reachability analysis: the
\* game thread runs ProcessAsync to its end, a task that has started runs on, but no
\* task of Tasks::Launch ever has to start.
SpecFair ==
    /\ Spec
    /\ WF_vars(SpinUntilAllStopped)
    /\ WF_vars(ReachabilityWorker(0))
    /\ \A w \in WorkerIds \ {0} : WF_vars(StartedWorker(w))
\* ------------------------------------- the tail of a reachability analysis
\* The slots of the heaps of SpecTailspin: strong, from an object to a later one.
TailspinSlots == {e \in SlotChoices(0) : e.kind = "Strong" /\ e.owner < e.target}

\* A heap without clusters whose root set is object 1, before a collection with one
\* worker more than the collection cycles of Spec have: with three contexts a worker
\* other than the game thread can spin, and take a block as the last worker runs dry.
InitTailspin ==
    \E E \in SubsetsUpTo(TailspinSlots, MaxTailspinRefs) :
      /\ WellFormedHeap(0, {1}, "RootSet", 0, SlotsInOrder(E))
      /\ Refs = SlotsInOrder(E)
      /\ Clusters = LayoutClusters(SlotsInOrder(E), 0)
      /\ Object = [o \in Obj |-> TRUE]
      /\ InternalFlags = [o \in Obj |-> LayoutInternalFlags(0, {1}, "RootSet", 0, o)]
      /\ ObjectFlags = [o \in Obj |-> {}]
      /\ OwnerIndex = [o \in Obj |-> LayoutOwnerIndex(0, o)]
      /\ IsDestructionThreadSafe = [o \in Obj |-> TRUE]
      /\ IsReadyForFinishDestroy = [o \in Obj |-> TRUE]
      /\ GUnreachableObjects = <<>>
      /\ GUnrechableObjectIndex = 0
      /\ GObjPurgeIsRequired = FALSE
      /\ GObjIncrementalPurgeIsInProgress = FALSE
      /\ GObjFinishDestroyHasBeenRoutedToAllObjects = FALSE
      /\ GObjCurrentPurgeObjectIndex = 0
      /\ GObjCurrentPurgeObjectIndexNeedsReset = TRUE
      /\ GGCObjectsPendingDestruction = <<>>
      /\ GGCObjectsPendingDestructionCount = 0
      /\ GAsyncPurge = NewAsyncPurge(FALSE)
      /\ InternalArrayLock = "None"
      /\ Frame = IdleFrame
      /\ PurgeThread = [pc |-> "Wait", LocalNumObjectsToDestroyOnGameThread |-> 0]
      /\ Destructed = [o \in Obj |-> 0]
      /\ DestructedBy = [o \in Obj |-> {}]
      /\ GCLock = FALSE
      /\ NumWorkerThreads = MaxThreads + 1
      /\ InitialObjects = <<>>
      /\ Workers = [w \in WorkerIds |-> IdleWorker]
      /\ Coordinator = NoCoordinator
      /\ hist = InitHist
      /\ NoTryCollectGarbage
      /\ NoScratchPages
      /\ NoWorkstealing
      /\ NoAROQueues
      /\ NoWorkerContexts
      /\ NoSlowAROs

\* A collection up to the end of its reachability analysis.
NextTailspin ==
    \/ CollectGarbage
    \/ FinishPreviousPurge
    \/ PerformReachabilityAnalysis
    \/ ProcessAsync
    \/ \E w \in WorkerIds : ReachabilityWorker(w)
    \/ SpinUntilAllStopped

SpecTailspin == InitTailspin /\ [][NextTailspin]_vars

\* --------------------------------------------------- the cycle: claims
\* The initial reachable set of heap h: the root set and the objects with keep flags.
InitialReachable(h) ==
    {o \in Obj : /\ h.Object[o]
                 /\ \/ h.Flags[o] \cap {"RootSet", "GarbageCollectionKeepFlags"} # {}
                    \/ o \in h.Kept /\ "PendingKill" \notin h.Flags[o]}

\* The slots of heap h that hold a strong reference: not a weak slot, and not a
\* killable slot on an object that carries the kill flag.
StrongSlots(h) ==
    {i \in 1..Len(h.Refs) :
        /\ h.Refs[i].kind # "Weak"
        /\ h.Refs[i].target # 0
        /\ ~(h.Refs[i].kind = "Killable" /\ "Garbage" \in h.Flags[h.Refs[i].target])}

\* The objects reachable from S in heap h; with bClusters, a member of a cluster
\* reaches the root of its cluster.
RECURSIVE ReachableFrom(_, _, _)
ReachableFrom(S, h, bClusters) ==
    LET S2 == S \cup {h.Refs[i].target : i \in {j \in StrongSlots(h) : h.Refs[j].owner \in S}}
                \cup (IF bClusters THEN {h.Owner[o] : o \in {m \in S : h.Owner[m] > 0}}
                      ELSE {})
    IN IF S2 = S THEN S ELSE ReachableFrom(S2, h, bClusters)

EndOfReachability == Frame.pc = "Reached"

\* No slot of heap h other than a weak slot holds a destroyed object.
NoDanglingSlot(h) ==
    \A i \in 1..Len(h.Refs) :
        h.Refs[i].target # 0 /\ h.Refs[i].kind # "Weak" => h.Object[h.Refs[i].target]

\* C1: at the end of the reachability analysis of a cycle, no object reachable from
\* the initial reachable set through strong references carries Unreachable.
C1_NoReachableObjectUnreachable ==
    EndOfReachability /\ NoDanglingSlot(hist.Start) =>
        \A o \in ReachableFrom(InitialReachable(hist.Start), hist.Start, FALSE) :
            "Unreachable" \notin InternalFlags[o]

\* C2 as stated: at the end of the reachability analysis, every object that is not
\* reachable from the initial reachable set carries Unreachable.
C2_Original ==
    EndOfReachability /\ NoDanglingSlot(hist.Start) =>
        \A o \in Obj \ ReachableFrom(InitialReachable(hist.Start), hist.Start, FALSE) :
            Object[o] => "Unreachable" \in InternalFlags[o]

\* C2, amended: at the end of the reachability analysis, every object that is not a
\* member of a cluster and is not reachable from the initial reachable set, when a
\* member of a cluster reaches its root, carries Unreachable.
C2_UnreachableObjectsMarked ==
    EndOfReachability /\ NoDanglingSlot(hist.Start) =>
        \A o \in Obj \ ReachableFrom(InitialReachable(hist.Start), hist.Start, TRUE) :
            Object[o] /\ OwnerIndex[o] <= 0 => "Unreachable" \in InternalFlags[o]

C2_Witness ==
    /\ EndOfReachability
    /\ \E o \in Obj \ ReachableFrom(InitialReachable(hist.Start), hist.Start, TRUE) :
          OwnerIndex[o] <= 0 /\ "Unreachable" \in InternalFlags[o]
    /\ \E o \in Obj : "ClusterRoot" \in InternalFlags[o] /\ "Unreachable" \notin InternalFlags[o]
    /\ hist.Traced # {}

\* C5: the members of a cluster whose root is reachable at the end of the
\* reachability analysis are not marked Unreachable, gathered or destroyed in the cycle.
C5_MembersOfReachableRootKept ==
    \A m \in hist.KeptMembers :
        /\ "Unreachable" \notin InternalFlags[m]
        /\ m \notin Range(GUnreachableObjects)
        /\ m \notin hist.Gathered
        /\ Object[m]

C5_Witness ==
    /\ hist.KeptMembers # {}
    /\ Frame.pc = "Idle"
    /\ \E o \in hist.Gathered : ~Object[o]

\* The cycle has released the GC lock, or has called a subscriber.
AfterTheLock == hist.Cycle > 0 /\ (~GCLock \/ hist.Subscribers > 0)

\* C6: once the cycle has released the GC lock or called a subscriber, every weak
\* slot recorded in the cycle that held an object the cycle gathered is null.
C6_WeakSlotsCleared ==
    AfterTheLock =>
        \A i \in hist.WeakRecorded : Refs[i].target \notin hist.Gathered

C6_Witness ==
    /\ AfterTheLock
    /\ Frame.pc = "PostReachabilityAnalysis"
    /\ \E i \in hist.WeakRecorded :
          hist.Start.Refs[i].target \in hist.Gathered /\ Refs[i].target = 0

\* The purge of the cycle begins, or has begun.
PurgeBegins ==
    Frame.pc \in {"PurgeIsRequired", "FullPurge", "PostGarbageCollect"}
    \/ (Frame.pc = "Idle" /\ hist.Cycle > 0)

\* The killable slots that held an object with the kill flag when the mark began.
KillableSlotsAtMark ==
    {i \in 1..Len(hist.Start.Refs) :
        /\ hist.Start.Refs[i].kind = "Killable"
        /\ hist.Start.Refs[i].target # 0
        /\ "Garbage" \in hist.Start.Flags[hist.Start.Refs[i].target]}

\* C7 as stated: every killable slot on an object that carried the kill flag at mark
\* time is null when the purge of the cycle begins.
C7_Original == PurgeBegins => \A i \in KillableSlotsAtMark : Refs[i].target = 0

\* C7, amended: every killable slot of an object the cycle has traced, on an object
\* that carried the kill flag at mark time, is null when the purge of the cycle begins.
C7_KillableSlotsOfTracedObjectsNull ==
    PurgeBegins =>
        \A i \in KillableSlotsAtMark : Refs[i].owner \in hist.Traced => Refs[i].target = 0

C7_Witness ==
    /\ Frame.pc = "PurgeIsRequired"
    /\ \E i \in KillableSlotsAtMark : Refs[i].owner \in hist.Traced /\ Refs[i].target = 0

\* C8 as stated: a second cycle, run after a first one with no mutation of the heap
\* in between, gathers nothing.
C8_Original ==
    hist.Cycle = 2 /\ Frame.pc = "ClearWeakReferences" => GUnreachableObjects = <<>>

\* C8, amended: a second cycle, run after a first one that dissolved no cluster and
\* with no mutation of the heap in between, gathers nothing.
C8_SecondCycleGathersNothing ==
    hist.Cycle = 2 /\ Frame.pc = "ClearWeakReferences" /\ hist.PrevDissolved = {} =>
        GUnreachableObjects = <<>>

C8_Witness ==
    /\ hist.Cycle = 2
    /\ Frame.pc = "ClearWeakReferences"
    /\ hist.PrevDissolved = {}
    /\ \E o \in Obj : ~Object[o]
    /\ \E o \in Obj : Object[o] /\ o \in hist.Traced

\* The reachability analysis of one worker on heap h, as a function: the worker
\* visits the slots of the objects it takes, one object after the other.
RECURSIVE VisitSlots(_, _)
VisitSlots(st, slots) ==
    IF slots = <<>> THEN st
    ELSE VisitSlots(ProcessReference(st, Head(slots), st.Refs[Head(slots)].target),
                    Tail(slots))

RECURSIVE RunSingleWorker(_, _)
RunSingleWorker(st, wk) ==
    IF NextBlock(wk) = <<>> THEN st
    ELSE LET s1 == VisitSlots([st EXCEPT !.Out = <<>>], SlotsIn(st.Refs, Head(NextBlock(wk))))
         IN RunSingleWorker(s1, AddAll(TakeObject(wk), s1.Out))

SingleWorkerReachability(h) ==
    LET st == [Flags |-> h.Flags, Owner |-> h.Owner, Clusters |-> h.Clusters,
               Refs |-> h.Refs, Out |-> <<>>, Weak |-> {}, bAdd |-> FALSE,
               KeepClusterRefs |-> <<>>, ClustersToDissolve |-> <<>>, Dissolved |-> {}]
        m == MarkObjectsAsUnreachable(st, 1, {o \in Obj : h.Object[o]}, h.Kept)
    IN RunSingleWorker(m, [IdleWorker EXCEPT !.Current = m.Out])

UnreachableIn(flags) == {o \in Obj : "Unreachable" \in flags[o]}

\* C10: the workers of a cycle, however many and however interleaved, leave the
\* objects marked, and the cycle gathers the objects, as one worker does on the heap
\* the cycle started from.
C10_SamePartitionAsOneWorker ==
    /\ EndOfReachability /\ NoDanglingSlot(hist.Start) =>
          UnreachableIn(InternalFlags)
              = UnreachableIn(SingleWorkerReachability(hist.Start).Flags)
    /\ Frame.pc = "ClearWeakReferences" /\ NoDanglingSlot(hist.Start) =>
          hist.Gathered = Range(GatherUnreachableObjects(
                              DissolveClusters(SingleWorkerReachability(hist.Start)), 1).Out)

C10_Witness ==
    /\ EndOfReachability
    /\ Coordinator.Num = 2
    /\ Coordinator.NumStopDirectly = 0
    /\ UnreachableIn(InternalFlags) # {}
    /\ Cardinality(hist.Traced) >= 3

InvokesSubscriber ==
    \/ Frame.pc = "IncrementalPurgeGarbageReturn" /\ Frame.bCompleted
    \/ Frame.pc = "PostReachabilityAnalysis"
    \/ Frame.pc = "PostGarbageCollect"

\* C12: the collector does not hold the GC lock when it calls the subscribers of a
\* post-phase broadcast.
C12_NoSubscriberUnderTheLock == InvokesSubscriber => ~GCLock

\* The phases of a cycle from the mark to the release of the GC lock.
FromMarkToRelease ==
    Frame.pc \in {"PerformReachabilityAnalysis", "ProcessAsync", "Reachability", "Reached",
                  "ClearWeakReferences", "ReleaseGCLock"}

\* C13: the steps of a cycle follow one another without overlap. From the mark to the
\* release of the GC lock the lock is held, the previous purge has finished and no
\* object of the object array has received BeginDestroy; the workers run only between
\* the mark and the gather; the weak slots are cleared when the lock is released; an
\* object receives FinishDestroy after BeginDestroy, and is freed after FinishDestroy.
C13_StepsInOrder ==
    /\ FromMarkToRelease =>
          /\ GCLock
          /\ ~GObjIncrementalPurgeIsInProgress /\ ~GObjPurgeIsRequired
          /\ \A o \in Obj : Object[o] => hist.BeginDestroy[o] = 0
    /\ Frame.pc # "Reachability" => \A w \in WorkerIds : Workers[w].pc = "None"
    /\ Frame.pc \in {"PerformReachabilityAnalysis", "ProcessAsync"} =>
          \A w \in WorkerIds : Workers[w].Weak = {}
    /\ Frame.pc = "ReleaseGCLock" =>
          \A i \in hist.WeakRecorded : Refs[i].target \notin hist.Gathered
    /\ hist.Cycle > 0 /\ ~FromMarkToRelease /\ Frame.pc # "CollectGarbage"
          /\ Frame.ret # "PerformReachabilityAnalysis" => ~GCLock
    /\ \A o \in Obj : /\ hist.FinishDestroy[o] <= hist.BeginDestroy[o]
                      /\ Destructed[o] <= hist.FinishDestroy[o]

C13_Witness ==
    /\ hist.Cycle = 2
    /\ Frame.pc = "PostGarbageCollect"
    /\ hist.Traced # {}
    /\ hist.WeakRecorded # {}
    /\ \E o \in hist.Gathered : Destructed[o] = 1
    /\ \E o \in Obj \ hist.Gathered : Destructed[o] = 1

\* The purge of the cycle is over: no purge is pending and the game thread is idle.
PurgeCompleted == Frame.pc = "Idle" /\ ~IsIncrementalPurgePending

\* The reachability analysis of a cycle that found the previous purge pending begins.
MarkStartsAfterPurge == Frame.pc = "PerformReachabilityAnalysis" /\ hist.PurgeAtStart

\* C16: when a cycle starts while the purge of the cycle before is pending or in
\* progress, the purge is over before the reachability analysis begins: at that
\* point IsIncrementalPurgePending() is false and no live object carries the
\* Unreachable flag.
C16_PurgeFinishedBeforeMark ==
    MarkStartsAfterPurge =>
        /\ ~IsIncrementalPurgePending
        /\ \A o \in Obj : Object[o] => "Unreachable" \notin InternalFlags[o]

\* C16 witness: the second cycle began with objects of the first still to purge, and
\* has destructed them before its reachability analysis.
C16_Witness ==
    /\ MarkStartsAfterPurge
    /\ hist.Cycle = 2
    /\ hist.PostPurgeGarbage > 0
    /\ \E o \in Obj : Destructed[o] = 1 /\ ~Object[o]

\* C17: whatever calls of UnhashUnreachableObjects, with or without a time limit,
\* unhash the list of a cycle, ConditionalBeginDestroy is invoked once on each object
\* of GUnreachableObjects, in the order of the list: the objects it has been invoked
\* on are at all times the objects of the list before the saved cursor, each once,
\* and all of them when the purge is over; each has received BeginDestroy once.
C17_BeginDestroyOnceInListOrder ==
    /\ GUnrechableObjectIndex <= Len(hist.List)
    /\ hist.Unhashed = SubSeq(hist.List, 1, GUnrechableObjectIndex)
    /\ \A i \in 1..Len(hist.List) :
          hist.BeginDestroy[hist.List[i]] = IF i <= GUnrechableObjectIndex THEN 1 ELSE 0
    /\ PurgeCompleted => GUnrechableObjectIndex = Len(hist.List)

\* C17 witness: a call of UnhashUnreachableObjects that began at a saved cursor inside
\* the list (it has made fewer iterations than the cursor counts) has unhashed the
\* rest of the list.
C17_Witness ==
    /\ Frame.pc = "UnhashReturn"
    /\ Len(hist.List) >= 2
    /\ GUnrechableObjectIndex = Len(hist.List)
    /\ Frame.TimePollCounter < GUnrechableObjectIndex
    /\ hist.Unhashed = hist.List

C4_DestructedExactlyOnce ==
    \A o \in Obj :
        /\ Destructed[o] <= 1
        /\ Cardinality(DestructedBy[o]) <= 1
        /\ o \notin Gathered => Destructed[o] = 0
        /\ ~GObjPurgeIsRequired /\ o \in Gathered => Destructed[o] = 1

\* C4 witness: a multithreaded purge is over in which the purge thread destructed
\* one object and the game thread another.
C4_Witness ==
    /\ GAsyncPurge.Thread
    /\ ~GObjPurgeIsRequired
    /\ \E o1, o2 \in Gathered : DestructedBy[o1] = {"Purge"} /\ DestructedBy[o2] = {"Game"}

\* What a single call without a time limit leaves of a purge.
PurgePostState ==
    /\ \A o \in Obj :
          /\ hist.BeginDestroy[o] = IF o \in Gathered THEN 1 ELSE 0
          /\ hist.FinishDestroy[o] = IF o \in Gathered THEN 1 ELSE 0
          /\ Destructed[o] = IF o \in Gathered THEN 1 ELSE 0
          /\ Object[o] = (o \notin Gathered)
    /\ ~GObjPurgeIsRequired
    /\ ~GObjIncrementalPurgeIsInProgress
    /\ ~GObjFinishDestroyHasBeenRoutedToAllObjects
    /\ GObjCurrentPurgeObjectIndexNeedsReset
    /\ GGCObjectsPendingDestructionCount = 0
    /\ GUnrechableObjectIndex = Len(GUnreachableObjects)
    /\ \A i \in 1..Len(GUnreachableObjects) : GUnreachableObjects[i] = 0

\* C9: whatever calls of IncrementalPurgeGarbage drove the purge to its end,
\* time-limited calls cut short by their budget or a single call without a time
\* limit, the post-state is the same: the same objects received BeginDestroy,
\* FinishDestroy and destruction, and the purge flags are the same.
C9_TimeSlicedDeterminism == PurgeCompleted => PurgePostState

\* C9 witness: the purge of a full list of objects is over after a call was cut short.
C9_Witness ==
    /\ PurgeCompleted
    /\ hist.TimeSliced
    /\ Cardinality(Gathered) = MaxUnreachable
    /\ hist.Trim > 0

\* ------------------------------------------------------ TryCollectGarbage
\* C22 as stated: in one reachability pass no object joins the objects to serialize
\* more than once, the initial objects of the mark counted.
C22_Original ==
    \A o \in Obj : Times(InitialObjects, o) + hist.Added[o] <= 1

\* C22: in one reachability pass the workers add no object to the objects to
\* serialize more than once, and none that the mark has put among the initial
\* objects: the one visit that clears Unreachable on an object adds it. The mark
\* itself may put a member of a cluster among the initial objects twice.
C22_WorkersAddAnObjectOnce ==
    \A o \in Obj :
        /\ hist.Added[o] <= 1
        /\ hist.Added[o] = 1 => Times(InitialObjects, o) = 0

\* C22 witness: two traced objects hold a strong reference to the same object,
\* which the mark had left Unreachable; both references have been visited and the
\* object has been added once.
C22_Witness ==
    /\ Frame.pc = "Reached"
    /\ \E i, j \in 1..Len(Refs) :
         /\ Refs[i].owner # Refs[j].owner
         /\ Refs[i].target = Refs[j].target
         /\ Refs[i].kind = "Strong" /\ Refs[j].kind = "Strong"
         /\ {Refs[i].owner, Refs[j].owner} \subseteq hist.Traced
         /\ hist.Added[Refs[i].target] = 1

\* C23: the reachability analysis ends, with SpinUntilAllStopped returning, on every
\* heap, cyclic ones included, whether or not the tasks of the other workers start.
C23_ReachabilityTerminates == (Frame.pc = "Reachability") ~> (Frame.pc = "Reached")

\* C23 witness: the game thread has stolen the context of the other worker, which
\* never started, has traced two objects that reference each other, and finds
\* every worker stopped.
C23_Witness ==
    /\ Frame.pc = "Reachability"
    /\ Coordinator.Num > 1
    /\ Workers[0].pc = "Stopped"
    /\ \A w \in 1..(Coordinator.Num - 1) : Workers[w].pc = "NoContext"
    /\ AllStopped
    /\ \E i, j \in 1..Len(Refs) :
         /\ Refs[i].owner = Refs[j].target
         /\ Refs[j].owner = Refs[i].target
         /\ Refs[i].kind = "Strong" /\ Refs[j].kind = "Strong"
         /\ {Refs[i].owner, Refs[j].owner} \subseteq hist.Traced

\* SpinUntilAllStopped returns in this step.
SpinReturns == Frame.pc = "Reachability" /\ Frame'.pc = "Reached"

\* Worker w has no context, or has left StealWork with nothing and works no more.
HasStopped(w) == Workers[w].pc \in {"Stopped", "NoContext"}

\* C24: when SpinUntilAllStopped returns every worker of the coordinator has
\* stopped or never had a context, no worker holds an object, a slot or a block
\* to visit, and a worker that has stopped takes no further step: none processes
\* a reference or pushes a block once the game thread tears the contexts down.
C24_SpinReturnsWhenAllStopped ==
    /\ [][SpinReturns =>
            \A w \in 0..(Coordinator.Num - 1) : HasStopped(w) /\ HasNoWork(Workers[w])]_vars
    /\ [][\A w \in WorkerIds :
            Workers[w].pc = "Stopped" /\ ~SpinReturns => Workers'[w] = Workers[w]]_vars

\* C24 witness: both workers took their own context and worked, both have stopped,
\* and the test of SpinUntilAllStopped fails.
C24_Witness ==
    /\ Frame.pc = "Reachability"
    /\ Coordinator.Num = 2
    /\ Coordinator.NumUsedContexts = 2
    /\ Workers[0].pc = "Stopped" /\ Workers[1].pc = "Stopped"
    /\ AllStopped
    /\ Cardinality(hist.Traced) >= 2

\* C25: a context is claimed at most once, by TryStartWorking of its own worker or
\* by StealContext of a thief; NumUsedContexts counts the claimed contexts, so a
\* worker that finds its context taken counts nothing; and when SpinUntilAllStopped
\* returns, after which the coordinator is destroyed, every context has been
\* claimed once, NumUsedContexts is the number of contexts and no slot holds one.
C25_ContextClaimedOnce ==
    /\ [](\A w \in WorkerIds : hist.Claimed[w] <= 1)
    /\ [](Frame.pc = "Reachability" =>
            /\ Coordinator.NumUsedContexts = Coordinator.Num - Cardinality(Coordinator.Contexts)
            /\ \A w \in 0..(Coordinator.Num - 1) :
                  hist.Claimed[w] = IF w \in Coordinator.Contexts THEN 0 ELSE 1)
    /\ [][SpinReturns =>
            /\ Coordinator.NumUsedContexts = Coordinator.Num
            /\ Coordinator.Contexts = {}
            /\ \A w \in 0..(Coordinator.Num - 1) : hist.Claimed[w] = 1]_vars

\* C25 witness: the game thread took its own context and stole the context of the
\* other worker; every worker has stopped and SpinUntilAllStopped is about to
\* return.
C25_Witness ==
    /\ Frame.pc = "Reachability"
    /\ Coordinator.Num = 2
    /\ Workers[0].pc = "Stopped"
    /\ Workers[1].pc = "NoContext"
    /\ hist.Claimed[0] = 1 /\ hist.Claimed[1] = 1
    /\ Coordinator.NumUsedContexts = 2
    /\ AllStopped

\* The heap when the mark of the cycle began, as MarkObjectsAsUnreachable finds it.
StartHeapState ==
    [HeapState EXCEPT !.Flags = hist.Start.Flags, !.Owner = hist.Start.Owner,
                      !.Clusters = hist.Start.Clusters, !.Refs = hist.Start.Refs]

\* The heap after the parallel loop of the mark of the cycle, before the clusters
\* to dissolve are dissolved.
AfterMarkLoop ==
    MarkObjects(StartHeapState, StripesInOrder(NumWorkerThreads, 0),
                {o \in Obj : hist.Start.Object[o]}, hist.Start.Kept)

\* The mark of the cycle has run.
Marked == Frame.pc = "ProcessAsync"

\* The objects the third case of the loop sees: live, outside the root set, not a
\* member of a cluster.
RegularObjectsAndClusterRoots ==
    {o \in Obj : /\ hist.Start.Object[o]
                 /\ "RootSet" \notin hist.Start.Flags[o]
                 /\ hist.Start.Owner[o] <= 0}

\* How many of the three outcomes the loop gave object o.
MarkOutcomes(o) ==
    Times(AfterMarkLoop.Out, o) + Times(AfterMarkLoop.ClustersToDissolve, o)
        + (IF "Unreachable" \in AfterMarkLoop.Flags[o] THEN 1 ELSE 0)

\* C27 as stated: the loop of the mark enqueues a regular object or cluster root
\* outside the root set as initial reachable, or enqueues it on the clusters to
\* dissolve, or sets Unreachable on it, and does exactly one of the three.
C27_Original ==
    Marked => \A o \in RegularObjectsAndClusterRoots : MarkOutcomes(o) = 1

\* C27, amended: the loop of the mark either enqueues such an object once as initial
\* reachable (keep flags, or KeepFlags without PendingKill) or sets Unreachable on
\* it; a cluster root flagged PendingKill or Garbage that is not kept is set
\* Unreachable and is also enqueued once on the clusters to dissolve, and nothing
\* else is.
C27_KeptOrUnreachable ==
    Marked =>
      \A o \in RegularObjectsAndClusterRoots :
        LET bKept == \/ "GarbageCollectionKeepFlags" \in hist.Start.Flags[o]
                     \/ "PendingKill" \notin hist.Start.Flags[o] /\ o \in hist.Start.Kept
            bGarbageRoot == /\ hist.Start.Flags[o] \cap {"PendingKill", "Garbage"} # {}
                            /\ "ClusterRoot" \in hist.Start.Flags[o]
        IN /\ Times(AfterMarkLoop.Out, o) = (IF bKept THEN 1 ELSE 0)
           /\ "Unreachable" \in AfterMarkLoop.Flags[o] <=> ~bKept
           /\ Times(AfterMarkLoop.ClustersToDissolve, o)
                 = (IF ~bKept /\ bGarbageRoot THEN 1 ELSE 0)

C27_Witness ==
    /\ Marked
    /\ \E o \in RegularObjectsAndClusterRoots :
          /\ "Unreachable" \in AfterMarkLoop.Flags[o]
          /\ Times(AfterMarkLoop.ClustersToDissolve, o) = 1
          /\ o \in hist.Dissolved
    /\ \E o \in RegularObjectsAndClusterRoots : Times(AfterMarkLoop.Out, o) = 1
    /\ \E o \in RegularObjectsAndClusterRoots :
          "Unreachable" \in AfterMarkLoop.Flags[o] /\ "ClusterRoot" \notin hist.Start.Flags[o]

\* No member of a cluster of heap st carries Unreachable.
NoUnreachableMember(st) ==
    \A o \in Obj : st.Owner[o] > 0 => "Unreachable" \notin st.Flags[o]

\* The heap after the mark of the cycle has dissolved the clusters to dissolve,
\* before it turns to the kept cluster objects.
AfterMarkDissolve ==
    DissolveClustersIn(AfterMarkLoop, Range(AfterMarkLoop.ClustersToDissolve), TRUE)

\* The heap GatherUnreachableObjects finds, the unreachable objects, and the roots
\* among them (ClusterItemsToDestroy).
BeforeGather == DissolveClusters(HeapState)

GatherList ==
    SelectSeq(StripesInOrder(IF NumWorkerThreads < 1 THEN 1 ELSE NumWorkerThreads, 0),
              LAMBDA o : "Unreachable" \in BeforeGather.Flags[o])

ClusterItemsToDestroy == SelectSeq(GatherList, LAMBDA o : "ClusterRoot" \in BeforeGather.Flags[o])

\* The heap once the loop of GatherUnreachableObjects has destroyed k clusters.
GatherAfter(k) ==
    DestroyClusters([BeforeGather EXCEPT !.Out = GatherList], SubSeq(ClusterItemsToDestroy, 1, k))

Gathers == Frame.pc = "Reached" /\ Frame'.pc = "ClearWeakReferences"

\* C28: a member of a cluster (OwnerIndex > 0) never carries Unreachable: not in any
\* state, not after the loop of the mark nor after its dissolutions, not between two
\* clusters of the loop of the gather; and an object on which the gather sets
\* Unreachable has its owner index reset to 0.
C28_MembersNeverUnreachable ==
    /\ [](NoUnreachableMember(HeapState))
    /\ [](Marked => NoUnreachableMember(AfterMarkLoop) /\ NoUnreachableMember(AfterMarkDissolve))
    /\ [](EndOfReachability =>
            \A k \in 0..Len(ClusterItemsToDestroy) : NoUnreachableMember(GatherAfter(k)))
    /\ [][Gathers =>
            \A o \in Obj : "Unreachable" \in InternalFlags'[o] \ InternalFlags[o] =>
                /\ OwnerIndex[o] > 0
                /\ OwnerIndex'[o] = 0]_vars

C28_Witness ==
    /\ Frame.pc = "ClearWeakReferences"
    /\ \E m \in Obj : /\ hist.Start.Owner[m] > 0
                       /\ m \notin hist.KeptMembers
                       /\ hist.Start.Owner[m] \notin hist.Dissolved
                       /\ "Unreachable" \in InternalFlags[m]
                       /\ OwnerIndex[m] = 0
                       /\ m \in Range(GUnreachableObjects)
    /\ hist.Traced # {}

\* The mark of the heap the cycle started from, by nt threads.
MarkWith(nt) ==
    MarkObjectsAsUnreachable(StartHeapState, nt, {o \in Obj : hist.Start.Object[o]},
                             hist.Start.Kept)

UnreachableSet(flags) == {o \in Obj : "Unreachable" \in flags[o]}

\* C29: whatever the number of threads of the mark, from one to more than there are
\* objects, every object is in exactly one stripe, and the mark of the heap the
\* cycle started from gives the Unreachable set and the set of initial objects that
\* the mark of the cycle gave.
C29_MarkIndependentOfStripes ==
    Marked =>
      \A nt \in 1..MaxStripes :
        /\ \A o \in Obj : Cardinality({t \in 0..(nt - 1) : o \in Stripe(nt, t)}) = 1
        /\ UnreachableSet(MarkWith(nt).Flags) = UnreachableSet(InternalFlags)
        /\ Range(MarkWith(nt).Out) = Range(InitialObjects)

C29_Witness ==
    /\ Marked
    /\ NumWorkerThreads = 2
    /\ MaxStripes > NumObjects
    /\ Stripe(MaxStripes, MaxStripes - 1) = {}
    /\ Stripe(2, 0) # {} /\ Stripe(2, 1) # {}
    /\ UnreachableSet(InternalFlags) \cap Stripe(2, 1) # {}
    /\ Range(InitialObjects) \cap Stripe(2, 0) # {}
    /\ hist.Dissolved # {}

\* The roots of clusters that carry Unreachable.
UnreachableClusterRoots ==
    {c \in Obj : {"ClusterRoot", "Unreachable"} \subseteq InternalFlags[c]}

\* C30: when the gather runs, every member of every cluster whose root still carries
\* Unreachable after the reachability analysis carries Unreachable afterwards and is
\* in GUnreachableObjects once, as is the root.
C30_GatherTakesWholeCluster ==
    [][Gathers =>
         \A c \in UnreachableClusterRoots :
            /\ Times(GUnreachableObjects', c) = 1
            /\ \A m \in Clusters[c].Objects :
                  /\ "Unreachable" \in InternalFlags'[m]
                  /\ Times(GUnreachableObjects', m) = 1]_vars

C30_Witness ==
    /\ Frame.pc = "ClearWeakReferences"
    /\ \E c \in Obj :
          /\ "ClusterRoot" \in hist.Start.Flags[c]
          /\ c \notin hist.Dissolved
          /\ hist.Start.Clusters[c].Objects # {}
          /\ \A o \in {c} \cup hist.Start.Clusters[c].Objects :
                "Unreachable" \in InternalFlags[o] /\ Times(GUnreachableObjects, o) = 1
    /\ Len(InitialObjects) > 0
    /\ Cardinality(hist.Traced) >= 2

\* The objects pending destruction: the first GGCObjectsPendingDestructionCount
\* elements of the array.
PendingObjects ==
    SubSeq(GGCObjectsPendingDestruction, 1, GGCObjectsPendingDestructionCount)

\* The objects the first round of FinishDestroy has visited: all of them once
\* FinishDestroy has been routed to all objects (the deletion then uses the cursor).
VisitedForFinishDestroy ==
    IF GObjFinishDestroyHasBeenRoutedToAllObjects \/ ~GObjPurgeIsRequired THEN Gathered
    ELSE IF GObjCurrentPurgeObjectIndexNeedsReset THEN {}
    ELSE {GUnreachableObjects[i] : i \in 1..GObjCurrentPurgeObjectIndex}

\* C31: ConditionalFinishDestroy is called on an object only in a step that finds it
\* ready for FinishDestroy, and at most once; an object the first round has visited
\* has either had the call or is once among the objects pending destruction, an
\* object it has not visited neither; and when FinishDestroy has been routed to all
\* objects every gathered object has had the call.
C31_FinishDestroyWhenReadyOnce ==
    /\ [](GGCObjectsPendingDestructionCount <= Len(GGCObjectsPendingDestruction))
    /\ [](\A o \in Obj :
            /\ hist.Routed[o] <= 1
            /\ hist.Routed[o] = hist.FinishDestroy[o]
            /\ Times(PendingObjects, o) + hist.Routed[o]
                  = (IF o \in VisitedForFinishDestroy THEN 1 ELSE 0))
    /\ [][\A o \in Obj : hist'.Routed[o] # hist.Routed[o] => IsReadyForFinishDestroy[o]]_vars

\* An object that was not ready has been passed over, swapped to the front by the
\* removal of another, and has had its call in a later call of the purge.
C31_Witness ==
    /\ GObjFinishDestroyHasBeenRoutedToAllObjects
    /\ Cardinality(hist.Deferred) >= 2
    /\ hist.TimeSliced
    /\ \A o \in Gathered : hist.Routed[o] = 1
    /\ Cardinality(Gathered) = MaxUnreachable

\* C32: once an object has had FinishDestroy every gathered object has had
\* BeginDestroy, and once an object has been destructed every gathered object has
\* had FinishDestroy, however the calls of the purge are sliced.
C32_PurgeStagesAreBarriers ==
    /\ (\E o \in Obj : hist.Routed[o] > 0) =>
           \A o \in Gathered : hist.BeginDestroy[o] = 1
    /\ (\E o \in Obj : Destructed[o] > 0) =>
           \A o \in Gathered : hist.FinishDestroy[o] = 1

C32_Witness ==
    /\ hist.TimeSliced
    /\ hist.Deferred # {}
    /\ \E o \in Gathered : Destructed[o] = 1
    /\ \E o \in Gathered : Destructed[o] = 0 /\ hist.FinishDestroy[o] = 1
    /\ Cardinality(Gathered) = MaxUnreachable

\* The purge has been reported complete: IncrementalDestroyGarbage found IsFinished()
\* true and cleared GObjPurgeIsRequired.
PurgeReportedComplete == ~GObjPurgeIsRequired

AllSlotsNull == \A i \in 1..Len(GUnreachableObjects) : GUnreachableObjects[i] = 0

\* C33 as stated: the purge is reported complete only with both cursors at the end
\* of GUnreachableObjects, as many objects destroyed on the game thread as were left
\* to it, and every slot null.
C33_Original ==
    PurgeReportedComplete =>
        /\ GAsyncPurge.ObjCurrentPurgeObjectIndex >= Len(GUnreachableObjects)
        /\ GAsyncPurge.ObjCurrentPurgeObjectIndexOnGameThread >= Len(GUnreachableObjects)
        /\ GAsyncPurge.NumObjectsToDestroyOnGameThread
              = GAsyncPurge.NumObjectsDestroyedOnGameThread
        /\ AllSlotsNull

\* C33, amended: the purge is reported complete only with the cursor of
\* TickDestroyObjects at the end of GUnreachableObjects, as many objects destroyed on
\* the game thread as were left to it, and every slot null; the cursor of the game
\* thread is past every object left to the game thread, and stays at 0 when the
\* purge has no thread.
C33_CompleteOnlyWhenAllDestroyed ==
    PurgeReportedComplete =>
        /\ GAsyncPurge.ObjCurrentPurgeObjectIndex >= Len(GUnreachableObjects)
        /\ GAsyncPurge.NumObjectsToDestroyOnGameThread
              = GAsyncPurge.NumObjectsDestroyedOnGameThread
        /\ AllSlotsNull
        /\ \A o \in Gathered : Destructed[o] = 1
        /\ IF GAsyncPurge.Thread
           THEN \A i \in 1..Len(hist.List) :
                   DestructedBy[hist.List[i]] = {"Game"} =>
                       i <= GAsyncPurge.ObjCurrentPurgeObjectIndexOnGameThread
           ELSE GAsyncPurge.ObjCurrentPurgeObjectIndexOnGameThread = 0

C33_Witness ==
    /\ PurgeReportedComplete
    /\ GAsyncPurge.Thread
    /\ Len(GUnreachableObjects) = MaxUnreachable
    /\ GAsyncPurge.NumObjectsDestroyedOnGameThread > 0
    /\ GAsyncPurge.ObjCurrentPurgeObjectIndexOnGameThread < Len(GUnreachableObjects)
    /\ AllSlotsNull

\* In a purge with a purge thread, this step is the game thread destroying the
\* object gathered at position i of GUnreachableObjects.
GameThreadDestroys(i) ==
    /\ GAsyncPurge.Thread
    /\ Destructed[hist.List[i]] = 0
    /\ Destructed'[hist.List[i]] = 1
    /\ DestructedBy'[hist.List[i]] = {"Game"}

\* The object gathered at position i is one the purge thread leaves to the game thread.
LeftToGameThread(i) == ~IsDestructionThreadSafe[hist.List[i]]

InTimeLimitedCall == Frame.pc # "Idle" /\ Frame.bUseTimeLimit

\* The objects pending destruction that the pass under way has yet to visit.
LeftOfThePass == GGCObjectsPendingDestructionCount - Frame.CurPendingObjIndex

ReturnOfCompletingCall ==
    /\ Frame.pc = "IncrementalPurgeGarbageReturn"
    /\ Frame.bCompleted
    /\ Frame'.pc # "IncrementalPurgeGarbageReturn"

\* The purge was completed by a time-limited call and waits for the tick of the trim.
AwaitsTrimTick ==
    Frame.pc = "Idle" /\ ~GObjPurgeIsRequired /\ GObjIncrementalPurgeIsInProgress

UnstolenBlocks ==
    Cardinality({p \in WorkerIds \X (1..NumObjects) : p[2] <= Len(Workers[p[1]].Queue)})

NoObjectsInAnyBuild ==
    /\ Object = [o \in Obj |-> FALSE]
    /\ InternalFlags = [o \in Obj |-> {}]
    /\ ObjectFlags = [o \in Obj |-> {}]
    /\ OwnerIndex = [o \in Obj |-> 0]
    /\ Clusters = [o \in Obj |-> EmptyCluster]
    /\ Refs = <<>>
    /\ IsDestructionThreadSafe = [o \in Obj |-> TRUE]
    /\ IsReadyForFinishDestroy = [o \in Obj |-> TRUE]
    /\ GUnreachableObjects = <<>>
    /\ GUnrechableObjectIndex = 0
    /\ GObjPurgeIsRequired = FALSE
    /\ GObjIncrementalPurgeIsInProgress = FALSE
    /\ GObjFinishDestroyHasBeenRoutedToAllObjects = FALSE
    /\ GObjCurrentPurgeObjectIndex = 0
    /\ GObjCurrentPurgeObjectIndexNeedsReset = TRUE
    /\ GGCObjectsPendingDestruction = <<>>
    /\ GGCObjectsPendingDestructionCount = 0
    /\ GAsyncPurge = NewAsyncPurge(FALSE)
    /\ InternalArrayLock = "None"
    /\ PurgeThread = [pc |-> "Wait", LocalNumObjectsToDestroyOnGameThread |-> 0]
    /\ Destructed = [o \in Obj |-> 0]
    /\ DestructedBy = [o \in Obj |-> {}]
    /\ NumWorkerThreads = 1
    /\ InitialObjects = <<>>
    /\ Workers = [w \in WorkerIds |-> IdleWorker]
    /\ Coordinator = NoCoordinator
    /\ hist = InitHist
    /\ NoAROQueues
    /\ NoWorkerContexts

\* The same in a build with checks, the slow ARO manager not constructed.
NoObjects == NoObjectsInAnyBuild /\ NoSlowAROs

notSlowAROVars == <<heapVars, answerVars, unhashVars, purgeVars, asyncVars, dtorVars, gcVars,
                    Frame, hist, tryVars, pageVars, queueVars, aroVars, contextVars>>
notAROVars == <<heapVars, answerVars, unhashVars, purgeVars, asyncVars, dtorVars,
                NumWorkerThreads, InitialObjects, Workers, Coordinator, hist, contextVars,
                slowAROVars>>
collectionVars == <<notAROVars, aroVars>>

\* The entry points are called at any time of the program's life, with any value of
\* gc.NumRetriesBeforeForcingGC the console has set, zero included.
InitTry ==
    /\ NoObjects
    /\ Frame = IdleFrame
    /\ GCLock = FALSE
    /\ GIsInitialLoad \in BOOLEAN
    /\ GNumAttemptsSinceLastGC = 0
    /\ GNumRetriesBeforeForcingGC \in 0..MaxRetries
    /\ AsyncCounter = 0
    /\ tryHist = InitTryHist
    /\ NoScratchPages
    /\ NoWorkstealing

\* FGCCSyncObject::TryGCLock succeeds when no other thread holds the lock.
TryGCLock == AsyncCounter = 0

\* ForceGC one attempt earlier.
ForceGCAtNumRetries ==
    GNumRetriesBeforeForcingGC > 0 /\ GNumAttemptsSinceLastGC >= GNumRetriesBeforeForcingGC

\* The test of TryCollectGarbage that forces the collection.
ForceGC ==
    GNumRetriesBeforeForcingGC > 0 /\ GNumAttemptsSinceLastGC > GNumRetriesBeforeForcingGC

\* TryCollectGarbage up to the call of CollectGarbageInternal or the return of false.
TryCollectGarbage ==
    /\ Frame.pc = "Idle"
    /\ GNumAttemptsSinceLastGC < MaxAttempts
    /\ IF GIsInitialLoad
       THEN /\ tryHist' = [tryHist EXCEPT !.Tried = FALSE, !.Busy = FALSE, !.Blocked = FALSE,
                                          !.AttemptsAtCall = GNumAttemptsSinceLastGC,
                                          !.RanCycle = FALSE, !.Result = "false"]
            /\ UNCHANGED <<Frame, GCLock, GNumAttemptsSinceLastGC>>
       ELSE IF TryGCLock
       THEN /\ GCLock' = TRUE
            /\ Frame' = [Frame EXCEPT !.pc = "CollectGarbageInternal"]
            /\ tryHist' = [tryHist EXCEPT !.Tried = TRUE, !.Busy = FALSE, !.Blocked = FALSE,
                                          !.AttemptsAtCall = GNumAttemptsSinceLastGC,
                                          !.RanCycle = FALSE, !.Result = "None"]
            /\ UNCHANGED GNumAttemptsSinceLastGC
       ELSE IF ForceGC
       THEN /\ GNumAttemptsSinceLastGC' = 0
            /\ Frame' = [Frame EXCEPT !.pc = "AcquireGCLock"]
            /\ tryHist' = [tryHist EXCEPT !.Tried = TRUE, !.Busy = TRUE, !.Blocked = TRUE,
                                          !.AttemptsAtCall = GNumAttemptsSinceLastGC,
                                          !.RanCycle = FALSE, !.Result = "None"]
            /\ UNCHANGED GCLock
       ELSE /\ GNumAttemptsSinceLastGC' = GNumAttemptsSinceLastGC + 1
            /\ tryHist' = [tryHist EXCEPT !.Tried = TRUE, !.Busy = TRUE, !.Blocked = FALSE,
                                          !.AttemptsAtCall = GNumAttemptsSinceLastGC,
                                          !.RanCycle = FALSE, !.Result = "false",
                                          !.Skipped = @ + 1]
            /\ UNCHANGED <<Frame, GCLock>>
    /\ UNCHANGED <<collectionVars, GIsInitialLoad, GNumRetriesBeforeForcingGC, AsyncCounter,
                   pageVars, queueVars>>

\* CollectGarbage past the initial load, up to its wait for the lock.
CollectGarbageCall ==
    /\ Frame.pc = "Idle"
    /\ ~GIsInitialLoad
    /\ Frame' = [Frame EXCEPT !.pc = "AcquireGCLock"]
    /\ tryHist' = [tryHist EXCEPT !.Tried = FALSE, !.Busy = FALSE, !.Blocked = TRUE,
                                  !.AttemptsAtCall = GNumAttemptsSinceLastGC,
                                  !.RanCycle = FALSE, !.Result = "None"]
    /\ UNCHANGED <<collectionVars, GCLock, GIsInitialLoad, GNumAttemptsSinceLastGC,
                   GNumRetriesBeforeForcingGC, AsyncCounter, pageVars, queueVars>>

\* AcquireGCLock: FGCCSyncObject::GCLock waits until no other thread holds the lock.
AcquireGCLock ==
    /\ Frame.pc = "AcquireGCLock"
    /\ AsyncCounter = 0
    /\ GCLock' = TRUE
    /\ Frame' = [Frame EXCEPT !.pc = "CollectGarbageInternal"]
    /\ UNCHANGED <<collectionVars, tryVars, pageVars, queueVars>>

\* CollectGarbageInternal, were the lock not released after the reachability analysis.
CollectGarbageInternalKeepingLock ==
    /\ Frame.pc = "CollectGarbageInternal"
    /\ GNumAttemptsSinceLastGC' = 0
    /\ GCLock' = GCLock
    /\ Frame' = [Frame EXCEPT !.pc = "Idle", !.ret = "Idle"]
    /\ tryHist' = [tryHist EXCEPT !.RanCycle = TRUE, !.Result = "true", !.Skipped = 0]
    /\ UNCHANGED <<collectionVars, GIsInitialLoad, GNumRetriesBeforeForcingGC, AsyncCounter,
                   pageVars, queueVars>>

\* The start of CollectGarbageImpl when GFlushStreamingOnGC is set and an async load
\* is under way: the lock is released, the async loading flushed, and the lock asked
\* for again. The frame notes the flush, which a call makes once.
FlushAsyncLoadingOnGC ==
    /\ Frame.pc = "CollectGarbageInternal"
    /\ Frame.ret # "Flushed"
    /\ GNumAttemptsSinceLastGC' = 0
    /\ GCLock' = FALSE
    /\ Frame' = [Frame EXCEPT !.pc = "AcquireGCLock", !.ret = "Flushed"]
    /\ UNCHANGED <<collectionVars, GIsInitialLoad, GNumRetriesBeforeForcingGC, AsyncCounter,
                   tryHist, pageVars, queueVars>>

\* CollectGarbageInternal, as far as the entry points see it: the cycle resets the
\* count of skipped attempts and releases the lock; TryCollectGarbage returns true.
CollectGarbageInternal ==
    /\ Frame.pc = "CollectGarbageInternal"
    /\ GNumAttemptsSinceLastGC' = 0
    /\ GCLock' = FALSE
    /\ Frame' = [Frame EXCEPT !.pc = "Idle", !.ret = "Idle"]
    /\ tryHist' = [tryHist EXCEPT !.RanCycle = TRUE, !.Result = "true", !.Skipped = 0]
    /\ UNCHANGED <<collectionVars, GIsInitialLoad, GNumRetriesBeforeForcingGC, AsyncCounter,
                   pageVars, queueVars>>

\* FGCCSyncObject::LockAsync: another thread takes the lock for its UObject
\* operations; it waits while the collector holds the lock or waits for it.
LockAsync ==
    /\ ~GCLock
    /\ Frame.pc # "AcquireGCLock"
    /\ AsyncCounter < MaxAsyncThreads
    /\ AsyncCounter' = AsyncCounter + 1
    /\ UNCHANGED <<collectionVars, Frame, GCLock, GIsInitialLoad, GNumAttemptsSinceLastGC,
                   GNumRetriesBeforeForcingGC, tryHist, pageVars, queueVars>>

\* FGCCSyncObject::UnlockAsync
UnlockAsync ==
    /\ AsyncCounter > 0
    /\ AsyncCounter' = AsyncCounter - 1
    /\ UNCHANGED <<collectionVars, Frame, GCLock, GIsInitialLoad, GNumAttemptsSinceLastGC,
                   GNumRetriesBeforeForcingGC, tryHist, pageVars, queueVars>>

\* The initial load ends.
EndInitialLoad ==
    /\ GIsInitialLoad
    /\ GIsInitialLoad' = FALSE
    /\ UNCHANGED <<collectionVars, Frame, GCLock, GNumAttemptsSinceLastGC,
                   GNumRetriesBeforeForcingGC, AsyncCounter, tryHist, pageVars, queueVars>>

NextTry ==
    \/ TryCollectGarbage
    \/ CollectGarbageCall
    \/ AcquireGCLock
    \/ CollectGarbageInternal
    \/ LockAsync
    \/ UnlockAsync
    \/ EndInitialLoad

SpecTry == InitTry /\ [][NextTry]_vars

\* The entry points with the flush of the async loading at the start of a cycle.
NextLock ==
    \/ NextTry
    \/ FlushAsyncLoadingOnGC

SpecLock == InitTry /\ [][NextLock]_vars

\* C38: the collector's acquisitions and releases of the GC lock are balanced: between
\* two calls of CollectGarbage or TryCollectGarbage, whatever the call did, it does not
\* hold the lock; it holds the lock wherever it releases it and does not hold it where
\* it asks for it; the lock is taken only at an entry point or in AcquireGCLock and
\* given up only inside CollectGarbageInternal.
C38_GCLockBalanced ==
    /\ [](Frame.pc = "Idle" => ~GCLock)
    /\ [](Frame.pc = "CollectGarbageInternal" => GCLock)
    /\ [](Frame.pc = "AcquireGCLock" => ~GCLock)
    /\ [][(GCLock /\ ~GCLock') => Frame.pc = "CollectGarbageInternal"]_vars
    /\ [][(~GCLock /\ GCLock') => Frame.pc \in {"Idle", "AcquireGCLock"}]_vars
    /\ [][(Frame.pc = "Idle" /\ Frame'.pc = "Idle") => GCLock' = GCLock]_vars

\* A call of TryCollectGarbage that found the lock busy and was forced has waited
\* for the lock, run the cycle and returned, and another thread has taken the lock.
C38_Witness ==
    /\ Frame.pc = "Idle"
    /\ tryHist.Tried /\ tryHist.Busy /\ tryHist.Blocked
    /\ tryHist.RanCycle
    /\ ~GCLock
    /\ AsyncCounter > 0

\* A call of TryCollectGarbage that reached TryGCLock has returned.
TryReturned == Frame.pc = "Idle" /\ tryHist.Tried /\ tryHist.Result # "None"

\* What TryCollectGarbage does when the lock is busy and it skips the collection.
TrySkipped ==
    /\ tryHist.Result = "false"
    /\ ~tryHist.RanCycle
    /\ ~tryHist.Blocked
    /\ GNumAttemptsSinceLastGC = tryHist.AttemptsAtCall + 1

\* What TryCollectGarbage does when the lock is busy and it forces the collection.
TryForced == tryHist.Result = "true" /\ tryHist.RanCycle /\ tryHist.Blocked

C15_NextCallAfterNumRetriesBlocks ==
    GNumRetriesBeforeForcingGC > 0 => tryHist.Skipped <= GNumRetriesBeforeForcingGC

\* ---------------------------------------------------------- FPageAllocator
\* FWorkerCache::Capacity
WorkerCacheCapacity == 512 \div MaxWorkers

\* The pages are told apart by where they are only: every cache is the number of
\* its pages, pageHist counts the pages in the hands of the callers and the pages
\* given back to FMemory::Free.
InitPages ==
    /\ NoObjects
    /\ Frame = IdleFrame
    /\ GCLock = FALSE
    /\ NoTryCollectGarbage
    /\ NoScratchPages
    /\ NoWorkstealing

\* FPageAllocator::FreePage
FreePage(h) == [h EXCEPT !.InUse = @ - 1, !.Freed = @ + 1]

\* FPageAllocator::AllocatePage(WorkerIdx): the page comes from the cache of the
\* worker, else from the shared cache, else from FMemory::Malloc.
AllocatePage(WorkerIdx) ==
    /\ ~pageHist.Shutdown
    /\ IF GScratchPages.WorkerCaches[WorkerIdx] > 0
       THEN /\ GScratchPages' = [GScratchPages EXCEPT !.WorkerCaches[WorkerIdx] = @ - 1]
            /\ pageHist' = [pageHist EXCEPT !.InUse = @ + 1]
       ELSE IF GScratchPages.SharedCache > 0
       THEN /\ GScratchPages' = [GScratchPages EXCEPT !.SharedCache = @ - 1]
            /\ pageHist' = [pageHist EXCEPT !.InUse = @ + 1]
       ELSE /\ pageHist.Malloc < MaxPages
            /\ pageHist' = [pageHist EXCEPT !.InUse = @ + 1, !.Malloc = @ + 1]
            /\ UNCHANGED GScratchPages
    /\ UNCHANGED <<collectionVars, Frame, GCLock, tryVars, queueVars>>

\* FPageAllocator::ReturnWorkerPage(WorkerIdx, Page): FWorkerCache::Push takes the
\* page when Num < Capacity; when it does not, the page is freed.
ReturnWorkerPage(WorkerIdx) ==
    /\ ~pageHist.Shutdown
    /\ pageHist.InUse > 0
    /\ IF GScratchPages.WorkerCaches[WorkerIdx] < WorkerCacheCapacity
       THEN /\ GScratchPages' = [GScratchPages EXCEPT !.WorkerCaches[WorkerIdx] = @ + 1]
            /\ pageHist' = [pageHist EXCEPT !.InUse = @ - 1]
       ELSE /\ pageHist' = FreePage(pageHist)
            /\ UNCHANGED GScratchPages
    /\ UNCHANGED <<collectionVars, Frame, GCLock, tryVars, queueVars>>

\* FPageAllocator::ReturnSharedPage(Page)
ReturnSharedPage ==
    /\ ~pageHist.Shutdown
    /\ pageHist.InUse > 0
    /\ GScratchPages' = [GScratchPages EXCEPT !.SharedCache = @ + 1]
    /\ pageHist' = [pageHist EXCEPT !.InUse = @ - 1]
    /\ UNCHANGED <<collectionVars, Frame, GCLock, tryVars, queueVars>>

\* The pages in the worker caches 0..w.
RECURSIVE CachedPages(_, _)
CachedPages(caches, w) == IF w < 0 THEN 0 ELSE caches[w] + CachedPages(caches, w - 1)

\* The destructors of the caches, at the exit of the process: every cached page is
\* freed.
DestroyPageAllocator ==
    /\ ~pageHist.Shutdown
    /\ GScratchPages' = NewPageAllocator
    /\ pageHist' = [pageHist EXCEPT
                       !.Shutdown = TRUE,
                       !.Freed = @ + CachedPages(GScratchPages.WorkerCaches, MaxThreads - 1)
                                   + GScratchPages.SharedCache]
    /\ UNCHANGED <<collectionVars, Frame, GCLock, tryVars, queueVars>>

\* FSharedCache::PushSurplus has no caller and is left out.
NextPages ==
    \/ \E WorkerIdx \in PageWorkerIds : AllocatePage(WorkerIdx)
    \/ \E WorkerIdx \in PageWorkerIds : ReturnWorkerPage(WorkerIdx)
    \/ ReturnSharedPage
    \/ DestroyPageAllocator

SpecPages == InitPages /\ [][NextPages]_vars

\* C18: scratch pages are freed at shutdown only: no calls of AllocatePage,
\* ReturnWorkerPage and ReturnSharedPage free a page (a page that is returned to a
\* worker cache that is full goes to the shared cache).
C18_PagesFreedAtShutdownOnly == pageHist.Freed > 0 => pageHist.Shutdown

\* ------------------------------------------------------ FWorkstealingQueue
\* One queue, its owner and the threads that steal from it. The owner calls Push and
\* Pop, every other thread Steal, at any time and in any order. The address of a
\* block that Pop or Steal has returned may be pushed again.
InitQueue ==
    /\ NoObjects
    /\ Frame = IdleFrame
    /\ GCLock = FALSE
    /\ NoTryCollectGarbage
    /\ NoScratchPages
    /\ NoWorkstealing

notQueueVars == <<collectionVars, Frame, GCLock, tryVars, pageVars>>

Wrap(n) == n % CounterModulus

\* FBoundedWorkstealingQueue::Push succeeds: the slot after Head is free. The slot
\* stays free until the owner stores into it, so the load and the store are one step.
CanPush(q) == q.Slots[Wrap(q.Head + 1) % Capacity] = FreeSlot

\* FBoundedWorkstealingQueue::Push(Block), when it succeeds
BoundedPush(q, Block) ==
    [q EXCEPT !.Slots[Wrap(q.Head + 1) % Capacity] = Block, !.Head = Wrap(q.Head + 1)]

\* The block was returned by Pop or Steal.
ReturnBlock(h, Block) ==
    [h EXCEPT !.Outstanding = @ \ {Block}, !.Twice = @ \/ Block \notin h.Outstanding]

\* FWorkstealingQueue::Push(Block) by the owner
Push(Block) ==
    /\ Owner.pc = "Idle"
    /\ Block \notin queueHist.Outstanding
    /\ queueHist.Pushes < MaxPushes
    /\ IF CanPush(SharedBlocks)
       THEN /\ SharedBlocks' = BoundedPush(SharedBlocks, Block)
            /\ UNCHANGED LocalBlocks
       ELSE /\ LocalBlocks' = Append(LocalBlocks, Block)
            /\ UNCHANGED SharedBlocks
    /\ queueHist' = [queueHist EXCEPT !.Outstanding = @ \cup {Block}, !.Pushes = @ + 1,
                                      !.Overflow = @ \/ ~CanPush(SharedBlocks)]
    /\ UNCHANGED <<notQueueVars, Owner, Thieves>>

\* FWorkstealingQueue::Pop by the owner. With no local block it is
\* FBoundedWorkstealingQueue::Pop: the compare-exchange on the slot at Head decides
\* (a load that sees no block returns nullptr as the compare-exchange would), so
\* the load and the compare-exchange are one step. With local blocks the last one
\* is taken and the loop that moves the others to the shared queue begins.
Pop ==
    /\ Owner.pc = "Idle"
    /\ IF LocalBlocks = <<>>
       THEN LET Idx == SharedBlocks.Head % Capacity
                Slot == SharedBlocks.Slots[Idx]
            IN IF Slot > TakenSlot
               THEN /\ SharedBlocks' = [SharedBlocks EXCEPT !.Slots[Idx] = FreeSlot,
                                                            !.Head = Wrap(@ - 1 + CounterModulus)]
                    /\ queueHist' = [ReturnBlock(queueHist, Slot) EXCEPT !.Popped = TRUE]
                    /\ UNCHANGED <<LocalBlocks, Owner>>
               ELSE UNCHANGED <<SharedBlocks, LocalBlocks, Owner, queueHist>>
       ELSE /\ Owner' = [pc |-> "MoveLocalBlocks", Out |-> LocalBlocks[Len(LocalBlocks)]]
            /\ LocalBlocks' = SubSeq(LocalBlocks, 1, Len(LocalBlocks) - 1)
            /\ UNCHANGED <<SharedBlocks, queueHist>>
    /\ UNCHANGED <<notQueueVars, Thieves>>

\* One iteration of the loop of FWorkstealingQueue::Pop, or its end: Pop returns Out.
MoveLocalBlocks ==
    /\ Owner.pc = "MoveLocalBlocks"
    /\ IF LocalBlocks # <<>> /\ CanPush(SharedBlocks)
       THEN /\ SharedBlocks' = BoundedPush(SharedBlocks, LocalBlocks[Len(LocalBlocks)])
            /\ LocalBlocks' = SubSeq(LocalBlocks, 1, Len(LocalBlocks) - 1)
            /\ UNCHANGED <<Owner, queueHist>>
       ELSE /\ Owner' = IdleOwner
            /\ queueHist' = [ReturnBlock(queueHist, Owner.Out) EXCEPT !.Popped = TRUE]
            /\ UNCHANGED <<SharedBlocks, LocalBlocks>>
    /\ UNCHANGED <<notQueueVars, Thieves>>

\* Thread t calls FWorkstealingQueue::Steal.
Steal(t) ==
    /\ Thieves[t].pc = "Idle"
    /\ Thieves' = [Thieves EXCEPT ![t] = [IdleThief EXCEPT !.pc = "LoadTail"]]
    /\ UNCHANGED <<notQueueVars, SharedBlocks, LocalBlocks, Owner, queueHist>>

\* IdxVer = Tail.load(); Idx = IdxVer % Capacity
StealLoadTail(t) ==
    /\ Thieves[t].pc = "LoadTail"
    /\ Thieves' = [Thieves EXCEPT ![t].pc = "LoadSlot", ![t].IdxVer = SharedBlocks.Tail,
                                  ![t].Idx = SharedBlocks.Tail % Capacity]
    /\ UNCHANGED <<notQueueVars, SharedBlocks, LocalBlocks, Owner, queueHist>>

\* StealLoadSlot without the return of nullptr: a free slot is read again.
StealLoadSlotAgain(t) ==
    /\ Thieves[t].pc = "LoadSlot"
    /\ LET Slot == SharedBlocks.Slots[Thieves[t].Idx]
       IN Thieves' = [Thieves EXCEPT ![t].Slot = Slot,
                                     ![t].pc = IF Slot \in {FreeSlot, TakenSlot} THEN "LoadTail"
                                               ELSE "CompareExchange"]
    /\ UNCHANGED <<notQueueVars, SharedBlocks, LocalBlocks, Owner, queueHist>>

\* Slot = Slots[Idx].load(): Steal returns nullptr when the slot is free, goes round
\* the loop when it is taken, and tries the compare-exchange on a block.
StealLoadSlot(t) ==
    /\ Thieves[t].pc = "LoadSlot"
    /\ LET Slot == SharedBlocks.Slots[Thieves[t].Idx]
       IN Thieves' = [Thieves EXCEPT ![t] =
                         IF Slot = FreeSlot THEN IdleThief
                         ELSE [@ EXCEPT !.Slot = Slot,
                                        !.pc = IF Slot = TakenSlot THEN "LoadTail"
                                               ELSE "CompareExchange"]]
    /\ UNCHANGED <<notQueueVars, SharedBlocks, LocalBlocks, Owner, queueHist>>

SlotIsAnything(t) == TRUE

\* The comparison of Slots[Idx].compare_exchange_weak(Slot, TakenSlot).
SlotIsExpected(t) == SharedBlocks.Slots[Thieves[t].Idx] = Thieves[t].Slot

\* The compare-exchange of Steal. A spurious failure of compare_exchange_weak sends
\* Steal round its loop as a failed comparison does; it is left out.
StealCompareExchange(t) ==
    /\ Thieves[t].pc = "CompareExchange"
    /\ IF SlotIsExpected(t)
       THEN /\ SharedBlocks' = [SharedBlocks EXCEPT !.Slots[Thieves[t].Idx] = TakenSlot]
            /\ Thieves' = [Thieves EXCEPT ![t].pc = "CheckTail"]
       ELSE /\ Thieves' = [Thieves EXCEPT ![t].pc = "LoadTail"]
            /\ UNCHANGED SharedBlocks
    /\ UNCHANGED <<notQueueVars, LocalBlocks, Owner, queueHist>>

\* IdxVer == Tail.load()
StealCheckTail(t) ==
    /\ Thieves[t].pc = "CheckTail"
    /\ Thieves' = [Thieves EXCEPT ![t].pc = IF Thieves[t].IdxVer = SharedBlocks.Tail
                                            THEN "FetchAdd" ELSE "Restore"]
    /\ UNCHANGED <<notQueueVars, SharedBlocks, LocalBlocks, Owner, queueHist>>

\* Tail.fetch_add(1)
StealFetchAdd(t) ==
    /\ Thieves[t].pc = "FetchAdd"
    /\ SharedBlocks' = [SharedBlocks EXCEPT !.Tail = Wrap(@ + 1)]
    /\ Thieves' = [Thieves EXCEPT ![t].pc = "Publish"]
    /\ UNCHANGED <<notQueueVars, LocalBlocks, Owner, queueHist>>

\* Slots[Idx].store(FreeSlot); Steal returns the block.
StealPublish(t) ==
    /\ Thieves[t].pc = "Publish"
    /\ SharedBlocks' = [SharedBlocks EXCEPT !.Slots[Thieves[t].Idx] = FreeSlot]
    /\ queueHist' = [ReturnBlock(queueHist, Thieves[t].Slot) EXCEPT !.Stolen = TRUE]
    /\ Thieves' = [Thieves EXCEPT ![t] = IdleThief]
    /\ UNCHANGED <<notQueueVars, LocalBlocks, Owner>>

\* Slots[Idx].store(Slot): the tail has moved, the block is put back.
StealRestore(t) ==
    /\ Thieves[t].pc = "Restore"
    /\ SharedBlocks' = [SharedBlocks EXCEPT !.Slots[Thieves[t].Idx] = Thieves[t].Slot]
    /\ Thieves' = [Thieves EXCEPT ![t].pc = "LoadTail"]
    /\ UNCHANGED <<notQueueVars, LocalBlocks, Owner, queueHist>>

\* The steps of thread t inside Steal.
InsideSteal(t) ==
    \/ StealLoadTail(t)
    \/ StealLoadSlot(t)
    \/ StealCompareExchange(t)
    \/ StealCheckTail(t)
    \/ StealFetchAdd(t)
    \/ StealPublish(t)
    \/ StealRestore(t)

NextQueue ==
    \/ \E Block \in Blocks : Push(Block)
    \/ Pop
    \/ MoveLocalBlocks
    \/ \E t \in ThiefIds : Steal(t)
    \/ \E t \in ThiefIds : InsideSteal(t)

SpecQueue == InitQueue /\ [][NextQueue]_vars

\* The first thief runs whenever it is inside Steal; the owner and the other thieves
\* may be suspended at any point, for any time.
SpecQueueFair == SpecQueue /\ WF_vars(InsideSteal(1))

\* The thieves that hold a slot at TakenSlot: after the compare-exchange, before the
\* store that frees or restores the slot.
HoldsSlot(t) == Thieves[t].pc \in {"CheckTail", "FetchAdd", "Publish", "Restore"}

RECURSIVE CountIn(_, _)
CountIn(s, Block) ==
    IF s = <<>> THEN 0 ELSE (IF Head(s) = Block THEN 1 ELSE 0) + CountIn(Tail(s), Block)

\* The places of the queue that hold the block: slots, local blocks, the thieves
\* that hold a slot, the owner inside Pop.
Places(Block) ==
    CountIn([i \in 1..Capacity |-> SharedBlocks.Slots[i - 1]], Block)
    + CountIn(LocalBlocks, Block)
    + Cardinality({t \in ThiefIds : HoldsSlot(t) /\ Thieves[t].Slot = Block})
    + (IF Owner.pc = "MoveLocalBlocks" /\ Owner.Out = Block THEN 1 ELSE 0)

\* No thread is inside Pop or Steal.
Quiescent == Owner.pc = "Idle" /\ \A t \in ThiefIds : Thieves[t].pc = "Idle"

\* FWorkstealingQueue::Pop would return nullptr.
PopFindsNothing ==
    LocalBlocks = <<>> /\ SharedBlocks.Slots[SharedBlocks.Head % Capacity] <= TakenSlot

\* FWorkstealingQueue::CheckEmpty passes.
CheckEmpty ==
    /\ \A i \in 0..(Capacity - 1) : SharedBlocks.Slots[i] = FreeSlot
    /\ LocalBlocks = <<>>

\* C20: with one owner and concurrent thieves, every block pushed onto the queue is
\* returned by one call of Pop or Steal: no call returns a block that is not
\* outstanding (none twice, none to the owner and to a thief), a block that is
\* outstanding is in one place of the queue and in one only (none lost), the local
\* blocks included, and when all threads are out of the queue and Pop finds nothing,
\* nothing is outstanding and the queue is empty.
C20_EveryBlockReturnedOnce ==
    /\ ~queueHist.Twice
    /\ \A Block \in Blocks : Places(Block) = IF Block \in queueHist.Outstanding THEN 1 ELSE 0
    /\ Quiescent /\ PopFindsNothing => queueHist.Outstanding = {} /\ CheckEmpty

\* C20 witness: all the pushes were made, one of them to the local blocks, Pop and
\* Steal have both returned blocks, and the queue is empty again.
C20_Witness ==
    /\ Quiescent
    /\ queueHist.Pushes = MaxPushes
    /\ queueHist.Overflow
    /\ queueHist.Popped
    /\ queueHist.Stolen
    /\ queueHist.Outstanding = {}
    /\ CheckEmpty

\* The first thief is inside Steal.
InSteal == Thieves[1].pc # "Idle"

\* Another thief holds the slot at Tail at TakenSlot.
TailSlotHeld ==
    \E t \in ThiefIds \ {1} : HoldsSlot(t) /\ Thieves[t].Idx = SharedBlocks.Tail % Capacity

\* C19 as stated: a call of Steal returns, a block or nullptr, whatever the other
\* threads do, a thief suspended in the middle of its own Steal included.
C19_Original == InSteal ~> ~InSteal

\* C19: a call of Steal returns, a block or nullptr, without waiting for the owner
\* or for a thief that is suspended before its compare-exchange; it waits for
\* nothing but a thief that holds the slot at Tail at TakenSlot, between its
\* compare-exchange and its store: if no thief holds that slot for ever, the call
\* returns.
C19_StealReturnsUnlessTailSlotHeld == ([]<>~TailSlotHeld) => (InSteal ~> ~InSteal)

\* C19 witness: the first thief has taken a block and is about to return it while
\* the second thief, which had loaded the same block, is still before its
\* compare-exchange.
C19_Witness ==
    /\ Thieves[1].pc = "Publish"
    /\ Thieves[2].pc = "CompareExchange"
    /\ Thieves[2].Slot = Thieves[1].Slot

\* ------------------------------------------------------------- FAROQueue
\* The queues that schedule the slow AddReferencedObjects calls: one queue per
\* worker, all of them taking their blocks from GAROBlocks. An object is the number
\* of the call of TryPush that carried it; a block is its place in
\* FAROQueueStore::Blocks, counted from one, and no block is 0. A word of a block
\* that nothing has written yet holds 0.
NumWords == 2 ^ AROWordBits
AROCapacity == NumWords - 1
NoNextBlock == -1
AROWorkers == 1..NumAROWorkers
NumPop == {n \in 1..MaxNumPop : n < AROCapacity}

NewAROBlock == [FirstIndexInNextBlock |-> NoNextBlock, Objects |-> [i \in 0..(AROCapacity - 1) |-> 0]]
IdleAROThread == [pc |-> "Idle", Queue |-> 0, NumWanted |-> 0, HeadNow |-> 0, TailNow |-> 0,
                  First |-> 0, Num |-> 0]

\* FAROQueueStore::AllocateBlock: Block is 0 where the code returns nullptr.
AllocateBlock(Store) ==
    IF Store.bFull
    THEN [Store |-> Store, Block |-> 0, OutIdx |-> 0]
    ELSE IF Store.NumBlocks >= MaxAROBlocks
         THEN [Store |-> [Store EXCEPT !.bFull = TRUE], Block |-> 0, OutIdx |-> 0]
         ELSE [Store |-> [Store EXCEPT !.NumBlocks = @ + 1, !.Blocks = Append(@, NewAROBlock)],
               Block |-> Store.NumBlocks + 1,
               OutIdx |-> Store.NumBlocks * NumWords]

\* FAROQueueStore::operator[]
ObjectAt(Store, Idx) == Store.Blocks[(Idx \div NumWords) + 1].Objects[Idx % NumWords]

\* FAROQueueStore::GetFirstIndexInNextBlock
GetFirstIndexInNextBlock(Store, Idx) == Store.Blocks[(Idx \div NumWords) + 1].FirstIndexInNextBlock

\* FSlowAROManager::SetupWorkerQueues: the constructors of the queues, one worker
\* after the other.
RECURSIVE ConstructQueues(_, _, _)
ConstructQueues(WorkerIdx, Store, Queues) ==
    IF WorkerIdx > NumAROWorkers
    THEN [Store |-> Store, Queues |-> Queues]
    ELSE LET a == AllocateBlock(Store)
         IN ConstructQueues(WorkerIdx + 1, a.Store,
                Append(Queues, [Head |-> a.OutIdx, HeadBlock |-> a.Block, Tail |-> a.OutIdx]))

SetupWorkerQueues ==
    /\ AROQueues = <<>>
    /\ LET c == ConstructQueues(1, GAROBlocks, <<>>)
       IN /\ GAROBlocks' = c.Store
          /\ AROQueues' = c.Queues
    /\ AROThreads' = [w \in AROWorkers |-> IdleAROThread]
    /\ UNCHANGED <<aroHist, notAROVars, Frame, GCLock, tryVars, pageVars, queueVars>>

\* FSlowAROManager::ResetWorkerQueues, with ~FAROQueue and ReturnAllBlocks: the
\* workers have left and every queue has been flushed.
ResetWorkerQueues ==
    /\ AROQueues # <<>>
    /\ \A w \in AROWorkers : AROThreads[w].pc = "Idle" /\ AROQueues[w].Head = AROQueues[w].Tail
    /\ GAROBlocks' = NewAROQueueStore
    /\ AROQueues' = <<>>
    /\ AROThreads' = <<>>
    /\ UNCHANGED <<aroHist, notAROVars, Frame, GCLock, tryVars, pageVars, queueVars>>

\* FAROQueue::TryPush, were it to publish the advanced head although no block is left.
TryPushMovingHead(Store, q, InObject) ==
    LET ObjectsIdx == q.Head % NumWords
        Written == [Store EXCEPT !.Blocks[q.HeadBlock].Objects[ObjectsIdx] = InObject]
        HeadIdx == q.Head + 1
        a == AllocateBlock(Written)
    IN IF HeadIdx % NumWords = AROCapacity
       THEN IF a.Block = 0
            THEN [Store |-> a.Store, Queue |-> [q EXCEPT !.Head = HeadIdx], Ok |-> FALSE]
            ELSE [Store |-> [a.Store EXCEPT
                                !.Blocks[q.HeadBlock].FirstIndexInNextBlock = a.OutIdx],
                  Queue |-> [q EXCEPT !.HeadBlock = a.Block, !.Head = a.OutIdx],
                  Ok |-> TRUE]
       ELSE [Store |-> Written, Queue |-> [q EXCEPT !.Head = HeadIdx], Ok |-> TRUE]

\* FAROQueue::TryPush, were the head published before the object is stored in the
\* block: the advanced head is visible while the word still holds what it held.
TryPushHeadBeforeObject(Store, q, InObject) ==
    LET HeadIdx == q.Head + 1
        a == AllocateBlock(Store)
    IN IF HeadIdx % NumWords = AROCapacity
       THEN IF a.Block = 0
            THEN [Store |-> a.Store, Queue |-> q, Ok |-> FALSE]
            ELSE [Store |-> [a.Store EXCEPT
                                !.Blocks[q.HeadBlock].FirstIndexInNextBlock = a.OutIdx],
                  Queue |-> [q EXCEPT !.HeadBlock = a.Block, !.Head = a.OutIdx],
                  Ok |-> TRUE]
       ELSE [Store |-> Store, Queue |-> [q EXCEPT !.Head = HeadIdx], Ok |-> TRUE]

\* FAROQueue::TryPush: the store and the queue it leaves, and what it returns.
TryPush(Store, q, InObject) ==
    LET ObjectsIdx == q.Head % NumWords
        Written == [Store EXCEPT !.Blocks[q.HeadBlock].Objects[ObjectsIdx] = InObject]
        HeadIdx == q.Head + 1
        a == AllocateBlock(Written)
    IN IF HeadIdx % NumWords = AROCapacity
       THEN IF a.Block = 0
            THEN [Store |-> a.Store, Queue |-> q, Ok |-> FALSE]
            ELSE [Store |-> [a.Store EXCEPT
                                !.Blocks[q.HeadBlock].FirstIndexInNextBlock = a.OutIdx],
                  Queue |-> [q EXCEPT !.HeadBlock = a.Block, !.Head = a.OutIdx],
                  Ok |-> TRUE]
       ELSE [Store |-> Written, Queue |-> [q EXCEPT !.Head = HeadIdx], Ok |-> TRUE]

\* FSlowAROManager::QueueCall by worker w, outside PopImpl: between two calls of
\* it, or inside the AddReferencedObjects call of an object it has returned.
QueueCall(w) ==
    /\ AROQueues # <<>>
    /\ AROThreads[w].pc \in {"Idle", "Process"}
    /\ aroHist.Pushed < MaxAROPushes
    /\ LET NewObject == aroHist.Pushed + 1
           r == TryPush(GAROBlocks, AROQueues[w], NewObject)
       IN /\ GAROBlocks' = r.Store
          /\ AROQueues' = [AROQueues EXCEPT ![w] = r.Queue]
          /\ aroHist' = [aroHist EXCEPT
                            !.Pushed = NewObject,
                            !.Rejected = IF r.Ok THEN @ ELSE @ \cup {NewObject}]
    /\ UNCHANGED <<AROThreads, notAROVars, Frame, GCLock, tryVars, pageVars, queueVars>>

\* FAROQueue::Pop by the owner of the queue: PopImpl up to its load of Head.
FAROQueuePop(w) ==
    /\ AROQueues # <<>>
    /\ AROThreads[w].pc = "Idle"
    /\ \E n \in NumPop :
         AROThreads' = [AROThreads EXCEPT ![w] =
                           [IdleAROThread EXCEPT !.pc = "LoadTail", !.Queue = w, !.NumWanted = n,
                                                 !.HeadNow = AROQueues[w].Head]]
    /\ UNCHANGED <<GAROBlocks, AROQueues, aroHist, notAROVars, Frame, GCLock, tryVars,
                   pageVars, queueVars>>

\* FAROQueue::Steal by another worker: PopImpl up to its load of Head.
FAROQueueSteal(w) ==
    /\ AROQueues # <<>>
    /\ AROThreads[w].pc = "Idle"
    /\ \E v \in AROWorkers \ {w}, n \in NumPop :
         AROThreads' = [AROThreads EXCEPT ![w] =
                           [IdleAROThread EXCEPT !.pc = "LoadTail", !.Queue = v, !.NumWanted = n,
                                                 !.HeadNow = AROQueues[v].Head]]
    /\ UNCHANGED <<GAROBlocks, AROQueues, aroHist, notAROVars, Frame, GCLock, tryVars,
                   pageVars, queueVars>>

\* PopImpl: the load of Tail and the test for an empty queue.
PopLoadTail(w) ==
    /\ AROQueues # <<>>
    /\ AROThreads[w].pc = "LoadTail"
    /\ LET TailNow == AROQueues[AROThreads[w].Queue].Tail
       IN AROThreads' = [AROThreads EXCEPT ![w] =
                            IF TailNow >= @.HeadNow
                            THEN IdleAROThread
                            ELSE [@ EXCEPT !.pc = "CompareExchange", !.TailNow = TailNow]]
    /\ UNCHANGED <<GAROBlocks, AROQueues, aroHist, notAROVars, Frame, GCLock, tryVars,
                   pageVars, queueVars>>

\* PopImpl: the tail it asks for and the number of objects it returns if its
\* compare-exchange succeeds.
WantedView(Store, t) ==
    LET LastInTailBlock == (t.TailNow - (t.TailNow % NumWords)) + AROCapacity - 1
        WantedTail == Min(t.HeadNow, t.TailNow + t.NumWanted)
    IN IF WantedTail <= LastInTailBlock
       THEN [Tail |-> WantedTail, Num |-> WantedTail - t.TailNow]
       ELSE [Tail |-> GetFirstIndexInNextBlock(Store, t.TailNow),
             Num |-> AROCapacity - (t.TailNow % NumWords)]

\* PopImpl: Tail.compare_exchange_weak, which may fail although Tail is the
\* expected one; a failure starts the loop again.
PopCompareExchange(w) ==
    /\ AROQueues # <<>>
    /\ AROThreads[w].pc = "CompareExchange"
    /\ LET t == AROThreads[w]
           v == WantedView(GAROBlocks, t)
       IN \E Exchanged \in {FALSE, AROQueues[t.Queue].Tail = t.TailNow} :
            IF Exchanged
            THEN /\ AROQueues' = [AROQueues EXCEPT ![t.Queue].Tail = v.Tail]
                 /\ AROThreads' = [AROThreads EXCEPT ![w] =
                                      [@ EXCEPT !.pc = "Process", !.First = t.TailNow,
                                                !.Num = v.Num]]
            ELSE /\ AROQueues' = AROQueues
                 /\ AROThreads' = [AROThreads EXCEPT ![w] = [@ EXCEPT !.pc = "LoadHead"]]
    /\ UNCHANGED <<GAROBlocks, aroHist, notAROVars, Frame, GCLock, tryVars, pageVars,
                   queueVars>>

\* PopImpl: the load of Head at the top of the loop, after a failed compare-exchange.
PopLoadHead(w) ==
    /\ AROQueues # <<>>
    /\ AROThreads[w].pc = "LoadHead"
    /\ AROThreads' = [AROThreads EXCEPT ![w] =
                         [@ EXCEPT !.pc = "LoadTail",
                                   !.HeadNow = AROQueues[AROThreads[w].Queue].Head]]
    /\ UNCHANGED <<GAROBlocks, AROQueues, aroHist, notAROVars, Frame, GCLock, tryVars,
                   pageVars, queueVars>>

\* The objects of the view PopImpl has returned, as the caller reads them.
ViewObjects(Store, t) == {ObjectAt(Store, t.First + i) : i \in 0..(t.Num - 1)}

\* FSlowAROManager::ProcessQueuesUsing and DrainLocalUnbalancedQueues: the caller
\* reads the returned view and calls AddReferencedObjects on each object of it.
ProcessView(w) ==
    /\ AROQueues # <<>>
    /\ AROThreads[w].pc = "Process"
    /\ LET Objects == ViewObjects(GAROBlocks, AROThreads[w])
       IN aroHist' = [aroHist EXCEPT
                         !.Returned = @ \cup Objects,
                         !.Twice = @ \/ (Objects \cap aroHist.Returned # {})]
    /\ AROThreads' = [AROThreads EXCEPT ![w] = IdleAROThread]
    /\ UNCHANGED <<GAROBlocks, AROQueues, notAROVars, Frame, GCLock, tryVars, pageVars,
                   queueVars>>

InitARO ==
    /\ NoObjects
    /\ Frame = IdleFrame
    /\ GCLock = FALSE
    /\ NoTryCollectGarbage
    /\ NoScratchPages
    /\ NoWorkstealing

NextARO ==
    \/ SetupWorkerQueues
    \/ ResetWorkerQueues
    \/ \E w \in AROWorkers : QueueCall(w)
    \/ \E w \in AROWorkers : FAROQueuePop(w)
    \/ \E w \in AROWorkers : FAROQueueSteal(w)
    \/ \E w \in AROWorkers : PopLoadTail(w)
    \/ \E w \in AROWorkers : PopCompareExchange(w)
    \/ \E w \in AROWorkers : PopLoadHead(w)
    \/ \E w \in AROWorkers : ProcessView(w)

SpecARO == InitARO /\ [][NextARO]_vars

\* No object TryPush has rejected has been returned by Pop or Steal.
RejectedNotReturned == aroHist.Rejected \cap aroHist.Returned = {}

\* A call of TryPush returns false in this step.
PushRejected == aroHist'.Rejected # aroHist.Rejected

\* Worker w calls TryPush in this step with its head on the last word of its head
\* block while the store has handed out all its blocks.
PushIntoFullStore ==
    /\ aroHist'.Pushed # aroHist.Pushed
    /\ GAROBlocks.NumBlocks = MaxAROBlocks
    /\ \E w \in AROWorkers :
         /\ AROQueues'[w].Tail = AROQueues[w].Tail
         /\ \A v \in AROWorkers \ {w} : AROQueues'[v] = AROQueues[v]
         /\ GAROBlocks'.Blocks[AROQueues[w].HeadBlock] # GAROBlocks.Blocks[AROQueues[w].HeadBlock]
         /\ AROQueues[w].Head % NumWords = AROCapacity - 1

\* C21: when the store of the ARO blocks is full, the push that needs a block
\* returns false; a push that returns false moves neither the head nor the tail of
\* any queue, and the object it rejected is never returned by a Pop or a Steal.
C21_FailedPushLeavesQueueAlone ==
    /\ []RejectedNotReturned
    /\ [][PushIntoFullStore => PushRejected]_vars
    /\ [][PushRejected => AROQueues' = AROQueues]_vars

\* C21 witness: the store is full, a push has been rejected, and the workers have
\* since popped and stolen every other object pushed and left the queues empty.
C21_Witness ==
    /\ AROQueues # <<>>
    /\ GAROBlocks.bFull
    /\ aroHist.Rejected # {}
    /\ aroHist.Returned = (1..aroHist.Pushed) \ aroHist.Rejected
    /\ aroHist.Pushed = MaxAROPushes
    /\ \A w \in AROWorkers : AROThreads[w].pc = "Idle" /\ AROQueues[w].Head = AROQueues[w].Tail

\* The objects between index Idx and the head of queue q, in order, read through the
\* links from each block to the next.
RECURSIVE ObjectsFrom(_, _, _)
ObjectsFrom(Store, q, Idx) ==
    IF Idx = q.Head THEN <<>>
    ELSE <<ObjectAt(Store, Idx)>> \o
         ObjectsFrom(Store, q, IF Idx % NumWords = AROCapacity - 1
                               THEN GetFirstIndexInNextBlock(Store, Idx)
                               ELSE Idx + 1)

\* The objects of the view that a Pop or Steal call of worker w has returned and
\* that its caller has yet to read.
ViewedBy(w) ==
    IF AROThreads[w].pc = "Process"
    THEN [i \in 1..AROThreads[w].Num |-> ObjectAt(GAROBlocks, AROThreads[w].First + i - 1)]
    ELSE <<>>

\* The objects in the queues and in the views of the workers from w on.
RECURSIVE InFlight(_)
InFlight(w) ==
    IF w > NumAROWorkers THEN <<>>
    ELSE ObjectsFrom(GAROBlocks, AROQueues[w], AROQueues[w].Tail) \o ViewedBy(w)
             \o InFlight(w + 1)

AcceptedObjects == (1..aroHist.Pushed) \ aroHist.Rejected

\* C37: every object that TryPush accepted is in exactly one place: once in the queue
\* of its producer, or once in the view of one Pop or Steal call, or among the objects
\* a caller has read from its view; no object is read twice, and what a caller reads
\* from a view, within a block or up to its end, is an object that TryPush accepted.
C37_PushedObjectReturnedOnce ==
    AROQueues # <<>> =>
        LET Flying == InFlight(1)
        IN /\ ~aroHist.Twice
           /\ Range(Flying) \cup aroHist.Returned = AcceptedObjects
           /\ Len(Flying) + Cardinality(aroHist.Returned) = Cardinality(AcceptedObjects)

\* A Steal has returned a view that ends at the end of a block: the tail of the queue
\* has moved to the next block, into which objects have been pushed, while the owner
\* of the queue holds a view of its own and earlier objects have been read.
C37_Witness ==
    /\ AROQueues # <<>>
    /\ \E w \in AROWorkers :
          LET t == AROThreads[w]
          IN /\ t.pc = "Process"
             /\ t.Queue # w
             /\ t.Num >= 1
             /\ AROQueues[t.Queue].Tail \div NumWords # t.First \div NumWords
             /\ AROQueues[t.Queue].Head > AROQueues[t.Queue].Tail
             /\ AROThreads[t.Queue].pc = "Process"
             /\ AROThreads[t.Queue].Queue = t.Queue
    /\ aroHist.Returned # {}

\* ------------------------------------------------- the pool of worker contexts
\* FWorkerIndexAllocator::FreeChecked, were the bit left set.
FreeCheckedKeepingBit(Used, Index) == Used

\* FWorkerIndexAllocator::AllocateChecked: the lowest clear bit of Used. The game
\* thread is the only caller, so that the fetch_or finds the bit clear.
AllocateChecked(Used) ==
    CHOOSE FreeIndex \in 0..MaxWorkers :
        /\ FreeIndex \notin Used
        /\ \A i \in 0..(FreeIndex - 1) : i \in Used

\* FWorkerIndexAllocator::FreeChecked
FreeChecked(Used, Index) == Used \ {Index}

\* The contexts that exist: those of the pool and those handed out.
LiveContexts == Range(ContextPool.Reusable) \cup Range(Reachability.Contexts)

\* FContextPoolScope::AllocateFromPool: a new FWorkerContext, whose constructor
\* allocates its index, when the pool has none to reuse; else the last context of
\* Reusable, with a new index. Out is the context returned.
AllocateFromPool ==
    LET Index == AllocateChecked(GWorkerIndices)
        Out == IF ContextPool.Reusable = <<>>
               THEN CHOOSE c \in ContextIds : c \notin LiveContexts
                                                /\ \A d \in 1..(c - 1) : d \in LiveContexts
               ELSE ContextPool.Reusable[Len(ContextPool.Reusable)]
    IN [Out |-> Out,
        Pool |-> [Reusable |-> IF ContextPool.Reusable = <<>> THEN <<>>
                               ELSE SubSeq(ContextPool.Reusable, 1,
                                           Len(ContextPool.Reusable) - 1),
                  NumAllocated |-> ContextPool.NumAllocated + 1],
        Used |-> GWorkerIndices \cup {Index},
        Index |-> (Out :> Index) @@ WorkerIndex]

\* FContextPoolScope::ReturnToPool with FWorkerContext::FreeWorkerIndex
ReturnToPool(Context) ==
    [Pool |-> [Reusable |-> Append(ContextPool.Reusable, Context),
               NumAllocated |-> ContextPool.NumAllocated - 1],
     Used |-> IF WorkerIndex[Context] # INDEX_NONE
              THEN FreeChecked(GWorkerIndices, WorkerIndex[Context])
              ELSE GWorkerIndices,
     Index |-> [WorkerIndex EXCEPT ![Context] = INDEX_NONE]]

\* FRealtimeGC::PerformReachabilityAnalysis allocates the context of the initial
\* objects.
AllocateInitialContext ==
    /\ Reachability.pc = "Idle"
    /\ LET a == AllocateFromPool
       IN /\ ContextPool' = a.Pool
          /\ GWorkerIndices' = a.Used
          /\ WorkerIndex' = a.Index
          /\ Reachability' = [Reachability EXCEPT !.pc = "PerformReachabilityAnalysisOnObjects",
                                                  !.Contexts = <<a.Out>>]
    /\ UNCHANGED <<heapVars, answerVars, unhashVars, purgeVars, asyncVars, dtorVars, gcVars,
                   Frame, hist, tryVars, pageVars, queueVars, aroVars, slowAROVars>>

\* The entry of ProcessAsync: the number of workers is the number of task graph
\* workers, clamped.
ProcessAsyncEntry ==
    /\ Reachability.pc = "PerformReachabilityAnalysisOnObjects"
    /\ \E n \in 1..MaxContexts :
          Reachability' = [Reachability EXCEPT !.pc = "AllocateContexts",
                                                !.NumWorkers = n]
    /\ UNCHANGED <<heapVars, answerVars, unhashVars, purgeVars, asyncVars, dtorVars, gcVars,
                   Frame, hist, tryVars, pageVars, queueVars, aroVars, slowAROVars,
                   GWorkerIndices, ContextPool, WorkerIndex>>

\* ProcessAsync: one turn of the loop that allocates the contexts of the other workers.
AllocateContext ==
    /\ Reachability.pc = "AllocateContexts"
    /\ Len(Reachability.Contexts) < Reachability.NumWorkers
    /\ LET a == AllocateFromPool
       IN /\ ContextPool' = a.Pool
          /\ GWorkerIndices' = a.Used
          /\ WorkerIndex' = a.Index
          /\ Reachability' = [Reachability EXCEPT !.Contexts = Append(@, a.Out)]
    /\ UNCHANGED <<heapVars, answerVars, unhashVars, purgeVars, asyncVars, dtorVars, gcVars,
                   Frame, hist, tryVars, pageVars, queueVars, aroVars, slowAROVars>>

\* ProcessAsync from the setup of the queues, which reads the index of every context,
\* to the end of the work of the workers.
ProcessContexts ==
    /\ Reachability.pc = "AllocateContexts"
    /\ Len(Reachability.Contexts) = Reachability.NumWorkers
    /\ Reachability' = [Reachability EXCEPT !.pc = "Working"]
    /\ UNCHANGED <<heapVars, answerVars, unhashVars, purgeVars, asyncVars, dtorVars, gcVars,
                   Frame, hist, tryVars, pageVars, queueVars, aroVars, slowAROVars,
                   GWorkerIndices, ContextPool, WorkerIndex>>

\* ProcessAsync: one turn of the loop that returns the contexts of the other workers,
\* or its end.
ReturnContext ==
    /\ Reachability.pc = "Working"
    /\ IF Len(Reachability.Contexts) > 1
       THEN LET r == ReturnToPool(Reachability.Contexts[2])
            IN /\ ContextPool' = r.Pool
               /\ GWorkerIndices' = r.Used
               /\ WorkerIndex' = r.Index
               /\ Reachability' = [Reachability EXCEPT
                                      !.Contexts = <<@[1]>> \o SubSeq(@, 3, Len(@)),
                                      !.Returned = @ + 1]
       ELSE /\ Reachability' = [Reachability EXCEPT !.pc = "ProcessAsyncReturn"]
            /\ UNCHANGED <<GWorkerIndices, ContextPool, WorkerIndex>>
    /\ UNCHANGED <<heapVars, answerVars, unhashVars, purgeVars, asyncVars, dtorVars, gcVars,
                   Frame, hist, tryVars, pageVars, queueVars, aroVars, slowAROVars>>

\* PerformReachabilityAnalysis returns the context of the initial objects.
ReturnInitialContext ==
    /\ Reachability.pc = "ProcessAsyncReturn"
    /\ LET r == ReturnToPool(Reachability.Contexts[1])
       IN /\ ContextPool' = r.Pool
          /\ GWorkerIndices' = r.Used
          /\ WorkerIndex' = r.Index
    /\ Reachability' = [pc |-> "Idle", Contexts |-> <<>>, NumWorkers |-> 0, Returned |-> 0]
    /\ UNCHANGED <<heapVars, answerVars, unhashVars, purgeVars, asyncVars, dtorVars, gcVars,
                   Frame, hist, tryVars, pageVars, queueVars, aroVars, slowAROVars>>

\* FContextPoolScope::Cleanup, which a full purge calls after the reachability
\* analysis: the contexts of the pool are deleted.
Cleanup ==
    /\ Reachability.pc = "Idle"
    /\ ContextPool.Reusable # <<>>
    /\ ContextPool' = [ContextPool EXCEPT !.Reusable = <<>>]
    /\ WorkerIndex' = <<>>
    /\ UNCHANGED <<heapVars, answerVars, unhashVars, purgeVars, asyncVars, dtorVars, gcVars,
                   Frame, hist, tryVars, pageVars, queueVars, aroVars, slowAROVars,
                   GWorkerIndices, Reachability>>

InitContexts ==
    /\ NoObjects
    /\ Frame = IdleFrame
    /\ GCLock = FALSE
    /\ NoTryCollectGarbage
    /\ NoScratchPages
    /\ NoWorkstealing

NextContexts ==
    \/ AllocateInitialContext
    \/ ProcessAsyncEntry
    \/ AllocateContext
    \/ ProcessContexts
    \/ ReturnContext
    \/ ReturnInitialContext
    \/ Cleanup

SpecContexts == InitContexts /\ [][NextContexts]_vars

\* The worker indices of the contexts of ProcessAsync, in the order of its array.
ContextIndices == [i \in 1..Len(Reachability.Contexts) |->
                      WorkerIndex[Reachability.Contexts[i]]]

\* C39: when the workers of ProcessAsync start, one context having been allocated
\* from the pool before the call, the indices of the contexts are pairwise distinct
\* and are exactly 0..NumWorkers-1; at any time the allocator's bits are the indices
\* of the contexts handed out, no two of which share an index; and when the contexts
\* are back in the pool every index is free.
C39_WorkerIndicesDistinctAndDense ==
    /\ Reachability.pc = "PerformReachabilityAnalysisOnObjects" => ContextPool.NumAllocated = 1
    /\ (Reachability.pc = "Working" /\ Reachability.Returned = 0) =>
          /\ Len(ContextIndices) = Reachability.NumWorkers
          /\ Range(ContextIndices) = 0..(Reachability.NumWorkers - 1)
    /\ \A i, j \in 1..Len(ContextIndices) : i # j => ContextIndices[i] # ContextIndices[j]
    /\ Range(ContextIndices) = GWorkerIndices
    /\ ContextPool.NumAllocated = Len(Reachability.Contexts)
    /\ \A c \in Range(ContextPool.Reusable) : WorkerIndex[c] = INDEX_NONE
    /\ Reachability.pc = "Idle" => GWorkerIndices = {}

\* The workers of a later ProcessAsync start with as many contexts as there are ids,
\* taken from the pool an earlier call filled, in another order than they were made.
C39_Witness ==
    /\ Reachability.pc = "Working"
    /\ Reachability.Returned = 0
    /\ Reachability.NumWorkers = MaxContexts
    /\ ContextPool.Reusable = <<>>
    /\ Reachability.Contexts[2] = MaxContexts

\* ------------------------------------------------------ the slow ARO manager
\* a % b of two uint32: undefined when b is zero, where a build either traps (the
\* divide error of x86) or leaves some value (the zero quotient of ARM gives a).
UndefinedModulo ==
    {[Trap |-> TRUE, Value |-> 0]} \cup {[Trap |-> FALSE, Value |-> v] : v \in 0..MaxSlowWorkers}

Modulo(a, b, Undefined) == IF b = 0 THEN Undefined ELSE [Trap |-> FALSE, Value |-> a % b]

\* FSlowAROManager::GetQueue: the index in AllQueues
GetQueue(AROIdx, WorkerIdx) == AROIdx * GSlowARO.NumWorkers + WorkerIdx

\* FAROQueue::NumPop<Quantity>, the call limit of ProcessQueues for the ARO
CallLimit(AROIdx) == IF AROIdx \in GSlowARO.ExtraSlowAROs THEN FewNumPop ELSE MaxNumPop

\* The queues of one ARO in the order ProcessQueues visits them: the worker's own,
\* those after it, those before it.
QueueOrder(AROIdx, WorkerIdx) ==
    <<GetQueue(AROIdx, WorkerIdx)>>
    \o [i \in 1..(GSlowARO.NumWorkers - 1 - WorkerIdx) |-> GetQueue(AROIdx, WorkerIdx + i)]
    \o [i \in 1..WorkerIdx |-> GetQueue(AROIdx, i - 1)]

\* FSlowAROManager::ProcessQueuesUsing over the queues of Order, a queue being the
\* number of the calls that wait in it: pops until the queue is empty or NumCalls
\* has reached the limit.
RECURSIVE ProcessQueuesUsing(_, _, _, _)
ProcessQueuesUsing(Queues, Order, Limit, NumCalls) ==
    IF Order = <<>>
    THEN [Queues |-> Queues, NumCalls |-> NumCalls, bStop |-> FALSE]
    ELSE LET Num == Min(Queues[Head(Order)], Limit)
         IN IF Num = 0
            THEN ProcessQueuesUsing(Queues, Tail(Order), Limit, NumCalls)
            ELSE IF NumCalls + Num >= Limit
            THEN [Queues |-> [Queues EXCEPT ![Head(Order)] = @ - Num],
                  NumCalls |-> NumCalls + Num, bStop |-> TRUE]
            ELSE ProcessQueuesUsing([Queues EXCEPT ![Head(Order)] = @ - Num], Order,
                                    Limit, NumCalls + Num)

\* The loop of FSlowAROManager::ProcessAllQueues. The clock passes StopTime at the
\* turn numbered ExpiresAt.
RECURSIVE ProcessAROsFrom(_, _, _, _, _, _, _)
ProcessAROsFrom(Queues, WorkerIdx, OffsetIdx, EndOffsetIdx, NumCalls, bStop, ExpiresAt) ==
    IF ~(OffsetIdx < EndOffsetIdx /\ ~bStop)
    THEN [Trap |-> FALSE, Queues |-> Queues, NumCalls |-> NumCalls]
    ELSE LET AROIdx == OffsetIdx - (IF OffsetIdx >= GSlowARO.NumAROs
                                    THEN GSlowARO.NumAROs ELSE 0)
             r == ProcessQueuesUsing(Queues, QueueOrder(AROIdx, WorkerIdx),
                                     CallLimit(AROIdx), NumCalls)
         IN ProcessAROsFrom(r.Queues, WorkerIdx, OffsetIdx + 1, EndOffsetIdx, r.NumCalls,
                            r.bStop \/ (r.NumCalls > 0 /\ OffsetIdx >= ExpiresAt),
                            ExpiresAt)

\* FSlowAROManager::ProcessAllQueues: the calls made, and the queues after them.
ProcessAllQueues(WorkerIdx, Undefined, ExpiresAt) ==
    LET OffsetIdx == Modulo(WorkerIdx, GSlowARO.NumAROs, Undefined)
    IN IF OffsetIdx.Trap
       THEN [Trap |-> TRUE, Queues |-> GSlowARO.AllQueues, NumCalls |-> 0]
       ELSE ProcessAROsFrom(GSlowARO.AllQueues, WorkerIdx, OffsetIdx.Value,
                            OffsetIdx.Value + GSlowARO.NumAROs, 0, FALSE, ExpiresAt)

\* RegisterSlowImplementation: TSingleton::Get constructs the manager at the first
\* call, RegisterImplementation adds the callback.
RegisterSlowImplementation(bExtraSlow) ==
    /\ Stealing.pc = "Idle"
    /\ GSlowARO.NumAROs < MaxSlowAROs
    /\ GSlowARO' = [GSlowARO EXCEPT
          !.bValid = TRUE,
          !.NumAROs = @ + 1,
          !.ExtraSlowAROs = IF bExtraSlow THEN @ \cup {GSlowARO.NumAROs} ELSE @]
    /\ UNCHANGED <<notSlowAROVars, Stealing>>

\* ProcessAsync sets the queues up (SetupWorkerQueues) through GetPostInit, whose checkf stops a build
\* with checks when Get was never called; NumWorkers workers then start to work.
SetupSlowAROQueues(InNumWorkers) ==
    /\ Stealing.pc = "Idle"
    /\ IF Stealing.bDoCheck /\ ~GSlowARO.bValid
       THEN /\ Stealing' = [Stealing EXCEPT !.pc = "CheckFailed"]
            /\ UNCHANGED GSlowARO
       ELSE /\ GSlowARO' = [GSlowARO EXCEPT
                  !.NumWorkers = InNumWorkers,
                  !.AllQueues = [i \in 0..(InNumWorkers * GSlowARO.NumAROs - 1) |-> 0]]
            /\ Stealing' = [Stealing EXCEPT
                  !.pc = "Reachability",
                  !.Loot = [w \in SlowWorkers |->
                               IF w < InNumWorkers THEN "Working" ELSE "NoContext"]]
    /\ UNCHANGED notSlowAROVars

\* FSlowARO::TryQueueCall by a worker that works: one more call waits in its queue
\* of the ARO, unless TryPush finds no room.
TryQueueCall(SlowAROIndex, w) ==
    /\ Stealing.pc = "Reachability"
    /\ Stealing.Loot[w] = "Working"
    /\ SlowAROIndex < GSlowARO.NumAROs
    /\ GSlowARO.AllQueues[GetQueue(SlowAROIndex, w)] < MaxSlowCalls
    /\ GSlowARO' = [GSlowARO EXCEPT !.AllQueues[GetQueue(SlowAROIndex, w)] = @ + 1]
    /\ UNCHANGED <<notSlowAROVars, Stealing>>

\* What a call of FSlowARO::ProcessAllCalls leaves of the worker and the program.
AfterProcessAllCalls(w, r, LootWithoutCalls) ==
    /\ GSlowARO' = [GSlowARO EXCEPT !.AllQueues = r.Queues]
    /\ Stealing' = [Stealing EXCEPT
          !.pc = IF r.Trap THEN "DivideError" ELSE @,
          !.NumCalls[w] = r.NumCalls,
          !.Loot[w] = IF r.Trap THEN "Crashed"
                      ELSE IF r.NumCalls > 0 THEN "ARO"
                      ELSE LootWithoutCalls]

\* StealWork up to its loop, by a worker out of work: a full block, else the calls
\* of the slow AROs, else a context, else ReportOutOfWork. What the blocks and the
\* coordinator answer is an input here.
StealWorkOfSlowAROs(w) ==
    /\ Stealing.pc = "Reachability"
    /\ Stealing.Loot[w] = "Working"
    /\ \E bBlock \in BOOLEAN, Undefined \in UndefinedModulo, ExpiresAt \in 0..MaxSlowAROs,
          AfterARO \in {"Context", "Spinning", "Nothing"} :
          IF bBlock
          THEN /\ Stealing' = [Stealing EXCEPT !.Loot[w] = "Block", !.NumCalls[w] = 0]
               /\ UNCHANGED GSlowARO
          ELSE AfterProcessAllCalls(w, ProcessAllQueues(w, Undefined, ExpiresAt), AfterARO)
    /\ UNCHANGED notSlowAROVars

\* One turn of the loop of StealWork, or its end when KeepSpinning is false.
KeepSpinningForSlowAROs(w) ==
    /\ Stealing.pc = "Reachability"
    /\ Stealing.Loot[w] = "Spinning"
    /\ \E bKeepSpinning \in BOOLEAN, bBlock \in BOOLEAN, Undefined \in UndefinedModulo,
          ExpiresAt \in 0..MaxSlowAROs :
          IF ~bKeepSpinning
          THEN /\ Stealing' = [Stealing EXCEPT !.Loot[w] = "Nothing", !.NumCalls[w] = 0]
               /\ UNCHANGED GSlowARO
          ELSE IF bBlock
          THEN /\ Stealing' = [Stealing EXCEPT !.Loot[w] = "Block", !.NumCalls[w] = 0]
               /\ UNCHANGED GSlowARO
          ELSE AfterProcessAllCalls(w, ProcessAllQueues(w, Undefined, ExpiresAt), "Spinning")
    /\ UNCHANGED notSlowAROVars

\* The worker works on what StealWork returned.
ProcessLoot(w) ==
    /\ Stealing.pc = "Reachability"
    /\ Stealing.Loot[w] \in {"Block", "ARO", "Context"}
    /\ Stealing' = [Stealing EXCEPT !.Loot[w] = "Working", !.NumCalls[w] = 0]
    /\ UNCHANGED <<notSlowAROVars, GSlowARO>>

\* The end of ProcessAsync, when every worker has left StealWork with nothing:
\* ResetWorkerQueues.
ResetSlowAROQueues ==
    /\ Stealing.pc = "Reachability"
    /\ \A w \in SlowWorkers : Stealing.Loot[w] \in {"Nothing", "NoContext"}
    /\ GSlowARO' = [GSlowARO EXCEPT !.AllQueues = <<>>, !.NumWorkers = 0]
    /\ Stealing' = NoStealing(Stealing.bDoCheck)
    /\ UNCHANGED notSlowAROVars

\* The program starts in a build with or without checks, no callback registered.
InitSlowARO ==
    /\ NoObjectsInAnyBuild
    /\ Frame = IdleFrame
    /\ GCLock = FALSE
    /\ NoTryCollectGarbage
    /\ NoScratchPages
    /\ NoWorkstealing
    /\ GSlowARO = NewSlowAROManager
    /\ \E bDoCheck \in BOOLEAN : Stealing = NoStealing(bDoCheck)

NextSlowARO ==
    \/ \E bExtraSlow \in BOOLEAN : RegisterSlowImplementation(bExtraSlow)
    \/ \E n \in 1..MaxSlowWorkers : SetupSlowAROQueues(n)
    \/ \E a \in 0..(MaxSlowAROs - 1), w \in SlowWorkers : TryQueueCall(a, w)
    \/ \E w \in SlowWorkers : StealWorkOfSlowAROs(w)
    \/ \E w \in SlowWorkers : KeepSpinningForSlowAROs(w)
    \/ \E w \in SlowWorkers : ProcessLoot(w)
    \/ ResetSlowAROQueues

SpecSlowARO == InitSlowARO /\ [][NextSlowARO]_vars

\* C40: a worker that looks for work when no slow ARO callback is registered makes
\* no call, is told that no ARO work was done, and goes on to steal a context: the
\* program runs on, and the worker leaves StealWork by the branches after the AROs.
C40_NoSlowAROIsWellDefined ==
    [][\A w \in SlowWorkers :
          (/\ GSlowARO.NumAROs = 0
           /\ Stealing.Loot[w] = "Working"
           /\ Stealing'.Loot[w] \notin {"Working", "Block"})
          => /\ Stealing'.pc = "Reachability"
             /\ Stealing'.NumCalls[w] = 0
             /\ Stealing'.Loot[w] \in {"Context", "Spinning", "Nothing"}]_vars

====
